---- MODULE Spec2Model ----
(***************************************************************************)
(* Delegated OAuth 2.0 authorization server of the semantic-code-search    *)
(* MCP server: token endpoint (authorization_code and refresh_token        *)
(* grants), the two OAuthStorage backends (MemoryOAuthStorage and          *)
(* RedisOAuthStorage) with their lock primitive, and the authorization     *)
(* endpoint's request validation.                                          *)
(*                                                                         *)
(* Time is counted in whole seconds: every Date.now() value of a run is a  *)
(* multiple of 1000 ms, so the source's millisecond fields (expiresAtMs,   *)
(* createdAtMs) are held in seconds and Math.ceil(ms / 1000) is exact.     *)
(*                                                                         *)
(* Scheduling.  A handler is a chain of awaits.  On the Redis backend each *)
(* storage call is a network round trip, so other handlers and the clock   *)
(* may run between any two calls.  On the in-memory backend a storage call *)
(* completes without leaving the microtask queue, so a handler runs        *)
(* uninterrupted from one real asynchronous wait (signAccessToken) to the  *)
(* next; the variable running names the handler that owns the queue.       *)
(***************************************************************************)
EXTENDS Integers, FiniteSets, Sequences, TLC

\* ------------------------------------------------------------------ bounds
MaxReqs == 2        \* token requests per run
MaxTicks == 1       \* clock advances per run
MaxFaults == 1      \* storage / signing exceptions per run
MaxVisits == 2      \* browser requests per run
MaxRegs == 2        \* client registrations per run
MaxOps == 3         \* storage calls per run of the two backends side by side

\* ------------------------------------------------------- program constants
ACCESS_TOKEN_TTL_SECONDS == 8 * 60 * 60
REFRESH_TOKEN_TTL_SECONDS == 30 * 24 * 60 * 60
LOCK_TTL_SECONDS == 5
AUTH_CODE_TTL_MS == 10 * 60 * 1000
OIDC_STATE_TTL_SECONDS == 10 * 60
SESSION_TTL_SECONDS == 30 * 24 * 60 * 60
APPROVAL_TTL_SECONDS == 365 * 24 * 60 * 60

Req == 1..MaxReqs
Null == [null |-> TRUE]
NoToken == 0

\* durations the clock may jump by: the validity windows of the records in play
RefreshTickSteps ==
    {LOCK_TTL_SECONDS + 1, REFRESH_TOKEN_TTL_SECONDS, REFRESH_TOKEN_TTL_SECONDS + 1}
CodeTickSteps == {AUTH_CODE_TTL_MS \div 1000, AUTH_CODE_TTL_MS \div 1000 + 1}
BrowserTickSteps == {OIDC_STATE_TTL_SECONDS + 1, SESSION_TTL_SECONDS + 1}

Max(a, b) == IF a > b THEN a ELSE b

VARIABLES
    backend,        \* cfg.oauthStorage: "memory" or "redis"
    now,            \* Date.now(), in seconds
    ticks,          \* clock advances so far
    faults,         \* exceptions thrown so far
    clients,        \* oauth:client:*   clientId -> OAuthClientMetadata
    dcr,            \* the last POST /oauth/register and its response
    regs,           \* POST /oauth/register requests so far
    stores,         \* a MemoryOAuthStorage and a RedisOAuthStorage given the same calls
    lastOp,         \* the last call made on both, and what each returned
    ops,            \* calls made on both so far
    signed,         \* a signed state blob: how it was signed, its text, the last verifyState
    http,           \* the last response seen on the wire: endpoint, status, headers, body
    cached,         \* the module-level cache of getOidcClient: null or [issuer, bundle]
    oidcCalls,      \* getOidcClient calls: position, cfg.oidcIssuer, what was returned
    authCodes,      \* oauth:code:*     code -> entry
    refreshTokens,  \* oauth:rt:*       hash -> entry
    locks,          \* oauth:rtlock:*   lock key -> [token, expiresAt]
    reqs,           \* in-flight and finished POST /oauth/token requests
    running,        \* handler that owns the microtask queue (0: none)
    issued,         \* history: refresh tokens returned in a 200 response
    rotated,        \* history: refresh tokens whose rotation answered 200
    codeUsed,       \* history: codes whose exchange answered 200
    minted,         \* history: hash -> [chain, expiresAt] of every record ever stored
    sessions,       \* oauth:sess:*     sessionId -> entry
    oidcTxs,        \* oauth:oidctx:*   txId -> entry
    authz,          \* the last GET /oauth/authorize and its response
    consent,        \* the last POST /oauth/consent, its response and Set-Cookie
    cbs,            \* GET /oauth/callback requests: position, locals, response
    visits,         \* browser requests so far
    mcp             \* POST /mcp requests: position, req.mcpAuth, context store

vars == <<backend, cached, oidcCalls, now, ticks, faults, clients, dcr, regs, stores, lastOp, ops, signed, http, authCodes, refreshTokens, locks,
          reqs, running, issued, rotated, codeUsed, minted,
          sessions, oidcTxs, authz, consent, cbs, visits, mcp>>

\* ------------------------------------------------------------ map helpers
Put(m, k, v) == [x \in DOMAIN m \cup {k} |-> IF x = k THEN v ELSE m[x]]
Del(m, k) == [x \in DOMAIN m \ {k} |-> m[x]]

\* Array.prototype.includes
Includes(arr, x) == \E i \in DOMAIN arr : arr[i] = x

\* ---------------------------------------------------------- crypto, pkce
\* sha256 is collision free on the few verifiers of a run
sha256Base64url(data) == "sha256:" \o data

\* variant: the verifier is not compared with the challenge
verifyPkceS256_Always(codeVerifier, codeChallenge) == TRUE

verifyPkceS256(codeVerifier, codeChallenge) == sha256Base64url(codeVerifier) = codeChallenge

JwtSigningSecret == "jwt-secret"

hmacSha256Hex(secret, data) == <<"hmac", secret, data>>

hashRefreshToken(secret, refreshToken) == hmacSha256Hex(secret, refreshToken)

\* randomToken(32) and randomUUID() return a value no earlier call returned.
\* A handler calls each at most once, so the value is named after the n-th
\* handler: tokens 2, 3, ... (1 is the token of the first code exchange).
randomToken(n) == n + 1
randomUUID(n) == n

\* ------------------------------------------------------------ JSON, records
Undefined == "<undefined>"

\* a property read: a missing key reads as undefined
Field(rec, f) == IF f \in DOMAIN rec THEN rec[f] ELSE Undefined

\* the optional keys of the stored records
OptionalKeys == {"resource", "upstreamRefreshTokenEnc"}

\* JSON.parse(JSON.stringify(rec)): keys whose value is undefined are dropped
JsonRoundTrip(rec) ==
    [f \in {g \in DOMAIN rec : ~(g \in OptionalKeys /\ rec[g] = Undefined)} |-> rec[f]]

\* String(record.userClaims.sub ?? '')
Subject(userClaims) == IF "sub" \in DOMAIN userClaims THEN userClaims.sub ELSE ""

\* ---------------------------------------------------------------- storage
\* A stored entry is [v |-> record, ex |-> expiry of the Redis key]; the
\* in-memory maps have no key expiry (NoTTL).
NoTTL == -1

\* Redis: SET key json EX max(1, ceil((expiresAtMs - Date.now()) / 1000))
RedisEntry(rec, t) == [v |-> JsonRoundTrip(rec), ex |-> t + Max(1, rec.expiresAt - t)]

MemoryEntry(rec) == [v |-> rec, ex |-> NoTTL]

StoreEntry(be, rec, t) == IF be = "redis" THEN RedisEntry(rec, t) ELSE MemoryEntry(rec)

\* Redis GET: a key past its EX time is gone
RedisGet(m, k, t) == IF k \in DOMAIN m /\ t <= m[k].ex THEN m[k].v ELSE Null

\* Map.get(k) ?? null
MemoryGet(m, k) == IF k \in DOMAIN m THEN m[k].v ELSE Null

\* variant: a record read back is never taken as expired
ExpiredRecord_Never(rec, t) == FALSE

\* if (Date.now() > record.expiresAtMs) return null
ExpiredRecord(rec, t) == t > rec.expiresAt

\* getRefreshTokenByHash, both backends: the raw read, then the expiry check
getRefreshTokenByHash(be, m, h, t) ==
    LET raw == IF be = "redis" THEN RedisGet(m, h, t) ELSE MemoryGet(m, h)
    IN  IF raw = Null THEN Null
        ELSE IF ExpiredRecord(raw, t) THEN Null
        ELSE raw

\* this.refreshTokens.set(hash, record) / SET key json EX ttl
putRefreshToken(be, m, rec, t) == Put(m, rec.refreshTokenHash, StoreEntry(be, rec, t))

\* variant: the old record is left in place
deleteRefreshTokenByHash_Kept(m, h) == m

deleteRefreshTokenByHash(m, h) == Del(m, h)

\* variant: the code is read but not deleted
DeleteCode_Kept(m, code) == m

\* this.authCodes.delete(code) / this.redis.del(key)
DeleteCode(m, code) == Del(m, code)

\* MemoryOAuthStorage.consumeAuthCode: read, delete, expiry check, in one turn
MemoryConsumeResult(m, code, t) ==
    LET record == MemoryGet(m, code)
    IN  IF record = Null THEN Null
        ELSE IF ExpiredRecord(record, t) THEN Null
        ELSE record

\* a storage instance after construction
EmptyStorage ==
    [authCodes |-> << >>, refreshTokens |-> << >>, sessions |-> << >>, oidcTxs |-> << >>,
     locks |-> << >>]

\* ------------------------------------------------------------------ locks
\* variant: the expiry comparison is reversed
MemoryLockHeld_Reversed(lk, key, t) == key \in DOMAIN lk /\ t > lk[key].expiresAt

\* MemoryOAuthStorage.acquireLock: existing && Date.now() < existing.expiresAtMs
MemoryLockHeld(lk, key, t) == key \in DOMAIN lk /\ t < lk[key].expiresAt

\* Redis SET key token EX ttl NX: fails while the key exists (not yet expired)
RedisLockHeld(lk, key, t) == key \in DOMAIN lk /\ t <= lk[key].expiresAt

LockHeld(be, lk, key, t) ==
    IF be = "redis" THEN RedisLockHeld(lk, key, t) ELSE MemoryLockHeld(lk, key, t)

\* variant: a lock that was taken is never taken as expired
acquireLock_NoExpiry(be, lk, key, ttlSeconds, tok, t) ==
    IF key \in DOMAIN lk THEN lk
    ELSE Put(lk, key, [token |-> tok, expiresAt |-> t + ttlSeconds])

\* the lock map after acquireLock(key, ttlSeconds) by a caller drawing token
\* tok; its result is tok when the map changed and null otherwise
acquireLock(be, lk, key, ttlSeconds, tok, t) ==
    IF LockHeld(be, lk, key, t) THEN lk
    ELSE Put(lk, key, [token |-> tok, expiresAt |-> t + ttlSeconds])

\* variant: the token comparison is missing
MemoryReleaseLock_AnyToken(lk, key, token) ==
    IF key \notin DOMAIN lk THEN lk ELSE Del(lk, key)

\* MemoryOAuthStorage.releaseLock
MemoryReleaseLock(lk, key, token) ==
    IF key \notin DOMAIN lk THEN lk
    ELSE IF lk[key].token # token THEN lk
    ELSE Del(lk, key)

\* RedisOAuthStorage.releaseLock: the Lua script, run atomically by the server
RedisReleaseLock(lk, key, token, t) ==
    IF key \in DOMAIN lk /\ t <= lk[key].expiresAt /\ lk[key].token = token
    THEN Del(lk, key)
    ELSE lk

releaseLock(be, lk, key, token, t) ==
    IF be = "redis" THEN RedisReleaseLock(lk, key, token, t) ELSE MemoryReleaseLock(lk, key, token)

LockKey(hash) == <<"oauth:rtlock", hash>>

\* ----------------------------------------------------- POST /oauth/token
BogusToken == 1000      \* a refresh token value the server never issued

OauthServerUrl == "https://mcp.example"

NoHeader == [none |-> TRUE]
NoJwt == [none |-> TRUE]

\* signAccessToken: the payload is scope and extraClaims, overlaid with iat,
\* iss, aud, sub and exp; the token is the payload and its HS256 signature
signAccessToken(signingSecret, issuer, audience, subject, scope, ttlSeconds, extraClaims, t) ==
    LET standard == [iat |-> t, iss |-> issuer, aud |-> audience, sub |-> subject,
                     exp |-> t + ttlSeconds]
        custom == [scope |-> scope]
        keys == DOMAIN standard \cup DOMAIN custom \cup DOMAIN extraClaims
        payload == [k \in keys |->
                       IF k \in DOMAIN standard THEN standard[k]
                       ELSE IF k \in DOMAIN extraClaims THEN extraClaims[k]
                       ELSE custom[k]]
    IN  [payload |-> payload, sig |-> hmacSha256Hex(signingSecret, payload)]

\* the access token both grants sign from the record they read
AccessTokenFor(record, t) ==
    signAccessToken(JwtSigningSecret, OauthServerUrl, OauthServerUrl,
                    Subject(record.userClaims), record.scope, ACCESS_TOKEN_TTL_SECONDS,
                    record.userClaims, t)

IdleReq ==
    [pc |-> "idle", grant |-> "", clientId |-> "", code |-> "", redirectUri |-> "",
     codeVerifier |-> "", refreshToken |-> NoToken,
     lockToken |-> NoToken, lockAt |-> 0, record |-> Null, newToken |-> NoToken,
     status |-> 0, error |-> "",
     accessToken |-> NoJwt,     \* the value of signAccessToken
     scope |-> "",             \* the scope member of the 200 body
     later |-> FALSE,           \* history: started after a 200 for the same code / token
     readFresh |-> FALSE,       \* history: the record was read before its expiresAt
     ops |-> {},                \* history: refresh-token and lock calls made
     staleRelease |-> FALSE,    \* history: releaseLock found another holder's lock
     threw |-> FALSE]           \* history: an exception left the handler

\* jsonError(res, status, error, desc); return  -- outside the try block
JsonError(q, status, error) ==
    [q EXCEPT !.pc = "done", !.status = status, !.error = error, !.record = Null]

\* variant: the null check on the lock token is missing
LockRefused_Never(lockToken) == FALSE

\* if (!lockToken) { jsonError(res, 429, 'slow_down', ...); return; }
LockRefused(lockToken) == lockToken = NoToken

\* variant: no finally clause; only the success path releases the lock
ExitTry_NoFinally(q, status, error) ==
    [q EXCEPT !.pc = IF status = 200 THEN "release" ELSE "done",
              !.status = status, !.error = error, !.record = Null,
              !.threw = (status = 500)]

\* leaving the try block (return after jsonError, res.json, or a throw):
\* control passes to the finally clause, which calls releaseLock
ExitTry(q, status, error) ==
    [q EXCEPT !.pc = "release", !.status = status, !.error = error, !.record = Null,
              !.threw = (status = 500)]

\* variant: the redirect_uri of the request is not compared with the client's
RedirectUriRegistered_Any(client, redirectUri) == TRUE

\* client.redirectUris.includes(redirectUri)
RedirectUriRegistered(client, redirectUri) == Includes(client.redirectUris, redirectUri)

\* variant: the client is not looked up before the grant is handled
Receive_ClientUnchecked(q, body, cl) ==
    IF body.grant_type = "" THEN JsonError(q, 400, "invalid_request")
    ELSE IF body.client_id = "" THEN JsonError(q, 400, "invalid_request")
    ELSE IF body.grant_type = "authorization_code" THEN [q EXCEPT !.pc = "consume"]
    ELSE IF body.grant_type = "refresh_token" THEN [q EXCEPT !.pc = "acquire"]
    ELSE JsonError(q, 400, "unsupported_grant_type")

\* the part of the handler from its entry to the first grant-specific storage call
Receive(q, body, cl) ==
    IF body.grant_type = "" THEN JsonError(q, 400, "invalid_request")
    ELSE IF body.client_id = "" THEN JsonError(q, 400, "invalid_request")
    ELSE IF body.client_id \notin DOMAIN cl THEN JsonError(q, 400, "invalid_client")
    ELSE IF cl[body.client_id].tokenEndpointAuthMethod # "none"
        THEN JsonError(q, 400, "invalid_client")
    ELSE IF body.grant_type = "authorization_code" THEN
        IF body.code = "" \/ body.redirect_uri = "" \/ body.code_verifier = ""
            THEN JsonError(q, 400, "invalid_request")
        ELSE IF ~RedirectUriRegistered(cl[body.client_id], body.redirect_uri)
            THEN JsonError(q, 400, "invalid_grant")
        ELSE [q EXCEPT !.pc = "consume"]
    ELSE IF body.grant_type = "refresh_token" THEN
        IF body.refresh_token = NoToken THEN JsonError(q, 400, "invalid_request")
        ELSE [q EXCEPT !.pc = "acquire"]
    ELSE JsonError(q, 400, "unsupported_grant_type")

\* the checks between consumeAuthCode and signAccessToken
AfterConsume(q, record) ==
    IF record = Null THEN JsonError(q, 400, "invalid_grant")
    ELSE IF record.clientId # q.clientId \/ record.redirectUri # q.redirectUri
        THEN JsonError(q, 400, "invalid_grant")
    ELSE IF record.codeChallengeMethod # "S256"
            \/ ~verifyPkceS256(q.codeVerifier, record.codeChallenge)
        THEN JsonError(q, 400, "invalid_grant")
    ELSE IF Subject(record.userClaims) = "" THEN JsonError(q, 400, "invalid_grant")
    ELSE [q EXCEPT !.pc = "issue", !.record = record]

\* variant: the client of the record is not compared with the request's
AfterGet_ClientUnchecked(q, record) ==
    IF record = Null THEN ExitTry(q, 400, "invalid_grant")
    ELSE IF Subject(record.userClaims) = "" THEN ExitTry(q, 400, "invalid_grant")
    ELSE [q EXCEPT !.pc = "rotate", !.record = record]

\* the checks between getRefreshTokenByHash and signAccessToken
AfterGet(q, record) ==
    IF record = Null THEN ExitTry(q, 400, "invalid_grant")
    ELSE IF record.clientId # q.clientId THEN ExitTry(q, 400, "invalid_grant")
    ELSE IF Subject(record.userClaims) = "" THEN ExitTry(q, 400, "invalid_grant")
    ELSE [q EXCEPT !.pc = "rotate", !.record = record]

\* variant: the new record keeps the subject only, and no resource
NewRefreshRecord_SubjectOnly(q, record, token, t) ==
    [refreshTokenHash |-> hashRefreshToken(JwtSigningSecret, token),
     clientId |-> q.clientId,
     scope |-> record.scope,
     resource |-> Undefined,
     userClaims |-> [sub |-> Subject(record.userClaims)],
     createdAt |-> t,
     expiresAt |-> t + REFRESH_TOKEN_TTL_SECONDS]

\* the record both grants hand to putRefreshToken
NewRefreshRecord(q, record, token, t) ==
    [refreshTokenHash |-> hashRefreshToken(JwtSigningSecret, token),
     clientId |-> q.clientId,
     scope |-> record.scope,
     resource |-> Field(record, "resource"),
     userClaims |-> record.userClaims,
     createdAt |-> t,
     expiresAt |-> t + REFRESH_TOKEN_TTL_SECONDS]

\* the handler keeps the microtask queue after a step unless the step ended
\* the request or reached a real asynchronous wait
Owner(r, q) ==
    IF backend = "memory" /\ q.pc \notin {"done", "issue", "rotate"} THEN r ELSE 0

MayRun(r) == running \in {0, r}

CanThrow == faults < MaxFaults

TokenUnchanged ==
    UNCHANGED <<backend, cached, oidcCalls, ticks, clients, dcr, regs, stores, lastOp, ops, signed, http, sessions, oidcTxs, authz, consent, cbs, visits, mcp>>

TokenReceive(r, body) ==
    /\ running = 0
    /\ reqs[r].pc = "idle"
    /\ IF r = 1 THEN TRUE ELSE reqs[r - 1].pc # "idle"
    /\ LET q0 == [IdleReq EXCEPT !.grant = body.grant_type, !.clientId = body.client_id,
                                 !.code = body.code, !.redirectUri = body.redirect_uri,
                                 !.codeVerifier = body.code_verifier,
                                 !.refreshToken = body.refresh_token,
                                 !.later = IF body.grant_type = "refresh_token"
                                           THEN body.refresh_token \in rotated
                                           ELSE body.code \in codeUsed]
           q1 == Receive(q0, body, clients)
       IN  /\ reqs' = [reqs EXCEPT ![r] = q1]
           /\ running' = Owner(r, q1)
    /\ TokenUnchanged
    /\ UNCHANGED <<now, faults, authCodes, refreshTokens, locks,
                   issued, rotated, codeUsed, minted>>

SetReq(r, q) ==
    /\ reqs' = [reqs EXCEPT ![r] = q]
    /\ running' = Owner(r, q)

\* ---- authorization_code grant
\* MemoryOAuthStorage.consumeAuthCode, then the checks up to signAccessToken
AcConsume(r) ==
    /\ MayRun(r)
    /\ backend = "memory"
    /\ reqs[r].pc = "consume"
    /\ authCodes' = DeleteCode(authCodes, reqs[r].code)
    /\ SetReq(r, AfterConsume(reqs[r], MemoryConsumeResult(authCodes, reqs[r].code, now)))
    /\ TokenUnchanged
    /\ UNCHANGED <<now, faults, refreshTokens, locks,
                   issued, rotated, codeUsed, minted>>

\* RedisOAuthStorage.consumeAuthCode, first half: GET; if (!raw) return null
AcRedisGet(r) ==
    /\ MayRun(r)
    /\ backend = "redis"
    /\ reqs[r].pc = "consume"
    /\ LET raw == RedisGet(authCodes, reqs[r].code, now)
       IN  SetReq(r, IF raw = Null THEN AfterConsume(reqs[r], Null)
                     ELSE [reqs[r] EXCEPT !.pc = "consume_del", !.record = raw])
    /\ TokenUnchanged
    /\ UNCHANGED <<now, faults, authCodes, refreshTokens, locks,
                   issued, rotated, codeUsed, minted>>

\* RedisOAuthStorage.consumeAuthCode, second half: DEL, the expiry check, and
\* the handler's checks up to signAccessToken
AcRedisDel(r) ==
    /\ MayRun(r)
    /\ reqs[r].pc = "consume_del"
    /\ authCodes' = DeleteCode(authCodes, reqs[r].code)
    /\ SetReq(r, AfterConsume(reqs[r], IF ExpiredRecord(reqs[r].record, now) THEN Null
                                       ELSE reqs[r].record))
    /\ TokenUnchanged
    /\ UNCHANGED <<now, faults, refreshTokens, locks,
                   issued, rotated, codeUsed, minted>>

\* signAccessToken, randomToken, putRefreshToken, res.json
AcIssue(r) ==
    /\ MayRun(r)
    /\ reqs[r].pc = "issue"
    /\ LET q == reqs[r]
           rec == NewRefreshRecord(q, q.record, randomToken(r), now)
       IN  /\ refreshTokens' = putRefreshToken(backend, refreshTokens, rec, now)
           /\ minted' = Put(minted, rec.refreshTokenHash, [chain |-> r, expiresAt |-> rec.expiresAt])
           /\ SetReq(r, [q EXCEPT !.pc = "done", !.status = 200, !.record = Null,
                                  !.accessToken = AccessTokenFor(q.record, now),
                                  !.scope = q.record.scope,
                                  !.newToken = randomToken(r)])
           /\ issued' = issued \cup {randomToken(r)}
           /\ codeUsed' = codeUsed \cup {q.code}
    /\ TokenUnchanged
    /\ UNCHANGED <<now, faults, authCodes, locks, rotated>>

\* ---- refresh_token grant
\* storage.acquireLock(lockKey, LOCK_TTL_SECONDS) and the test of its result
RtAcquire(r) ==
    /\ MayRun(r)
    /\ reqs[r].pc = "acquire"
    /\ LET q == reqs[r]
           key == LockKey(hashRefreshToken(JwtSigningSecret, q.refreshToken))
           after == acquireLock(backend, locks, key, LOCK_TTL_SECONDS, randomUUID(r), now)
           lockToken == IF after = locks THEN NoToken ELSE randomUUID(r)
       IN  /\ locks' = after
           /\ SetReq(r, IF LockRefused(lockToken) THEN JsonError(q, 429, "slow_down")
                        ELSE [q EXCEPT !.pc = "get", !.lockToken = lockToken,
                                       !.lockAt = now])
    /\ TokenUnchanged
    /\ UNCHANGED <<now, faults, authCodes, refreshTokens,
                   issued, rotated, codeUsed, minted>>

\* an exception inside the try block: a Redis call rejects, or signing throws
RtThrow(r) ==
    /\ MayRun(r)
    /\ CanThrow
    /\ \/ reqs[r].pc = "rotate"
       \/ backend = "redis" /\ reqs[r].pc \in {"get", "delete"}
    /\ faults' = faults + 1
    /\ SetReq(r, ExitTry(reqs[r], 500, "exception"))
    /\ TokenUnchanged
    /\ UNCHANGED <<now, authCodes, refreshTokens, locks,
                   issued, rotated, codeUsed, minted>>

\* storage.getRefreshTokenByHash(oldHash) and the checks that follow it
RtGet(r) ==
    /\ MayRun(r)
    /\ reqs[r].pc = "get"
    /\ LET oldHash == hashRefreshToken(JwtSigningSecret, reqs[r].refreshToken)
           q == [reqs[r] EXCEPT !.ops = @ \cup {"get"},
                                !.readFresh = /\ oldHash \in DOMAIN minted
                                              /\ now < minted[oldHash].expiresAt]
       IN  SetReq(r, AfterGet(q, getRefreshTokenByHash(backend, refreshTokens, oldHash, now)))
    /\ TokenUnchanged
    /\ UNCHANGED <<now, faults, authCodes, refreshTokens, locks,
                   issued, rotated, codeUsed, minted>>

\* variant: the new record is not stored before the old one is deleted
RtRotate_NoPut(r) ==
    /\ MayRun(r)
    /\ reqs[r].pc = "rotate"
    /\ LET q == reqs[r]
           oldHash == hashRefreshToken(JwtSigningSecret, q.refreshToken)
           rec == NewRefreshRecord(q, q.record, randomToken(r), now)
       IN  /\ minted' = Put(minted, rec.refreshTokenHash,
                            [chain |-> minted[oldHash].chain, expiresAt |-> rec.expiresAt])
           /\ SetReq(r, [q EXCEPT !.pc = "delete", !.newToken = randomToken(r),
                                  !.accessToken = AccessTokenFor(q.record, now),
                                  !.ops = @ \cup {"put"}])
    /\ TokenUnchanged
    /\ UNCHANGED <<now, faults, authCodes, refreshTokens, locks, issued, rotated, codeUsed>>

\* signAccessToken, randomToken, storage.putRefreshToken(new record)
RtRotate(r) ==
    /\ MayRun(r)
    /\ reqs[r].pc = "rotate"
    /\ LET q == reqs[r]
           oldHash == hashRefreshToken(JwtSigningSecret, q.refreshToken)
           rec == NewRefreshRecord(q, q.record, randomToken(r), now)
       IN  /\ refreshTokens' = putRefreshToken(backend, refreshTokens, rec, now)
           /\ minted' = Put(minted, rec.refreshTokenHash,
                            [chain |-> minted[oldHash].chain, expiresAt |-> rec.expiresAt])
           /\ SetReq(r, [q EXCEPT !.pc = "delete", !.newToken = randomToken(r),
                                  !.accessToken = AccessTokenFor(q.record, now),
                                  !.ops = @ \cup {"put"}])
    /\ TokenUnchanged
    /\ UNCHANGED <<now, faults, authCodes, locks, issued, rotated, codeUsed>>

\* storage.deleteRefreshTokenByHash(oldHash), then res.json: the 200 is sent
RtDelete(r) ==
    /\ MayRun(r)
    /\ reqs[r].pc = "delete"
    /\ LET q == reqs[r]
           oldHash == hashRefreshToken(JwtSigningSecret, q.refreshToken)
       IN  /\ refreshTokens' = deleteRefreshTokenByHash(refreshTokens, oldHash)
           /\ SetReq(r, ExitTry([q EXCEPT !.ops = @ \cup {"del"}, !.scope = q.record.scope],
                                 200, ""))
           /\ issued' = issued \cup {q.newToken}
           /\ rotated' = rotated \cup {q.refreshToken}
    /\ TokenUnchanged
    /\ UNCHANGED <<now, faults, authCodes, locks, codeUsed, minted>>

\* finally { await storage.releaseLock(lockKey, lockToken); }
RtRelease(r) ==
    /\ MayRun(r)
    /\ reqs[r].pc = "release"
    /\ LET q == reqs[r]
           key == LockKey(hashRefreshToken(JwtSigningSecret, q.refreshToken))
       IN  /\ locks' = releaseLock(backend, locks, key, q.lockToken, now)
           /\ SetReq(r, [q EXCEPT !.pc = "done", !.ops = @ \cup {"release"}, !.lockAt = 0,
                                  !.staleRelease = /\ LockHeld(backend, locks, key, now)
                                                   /\ locks[key].token # q.lockToken])
    /\ TokenUnchanged
    /\ UNCHANGED <<now, faults, authCodes, refreshTokens,
                   issued, rotated, codeUsed, minted>>

\* ---- the clock
Tick(d) ==
    /\ running = 0
    /\ ticks < MaxTicks
    /\ \E r \in Req : reqs[r].pc # "done"     \* time after the last response is not observed
    /\ visits < MaxVisits
    \* a handler is in flight for seconds, not for the lifetime of a code or token
    /\ d > LOCK_TTL_SECONDS + 1 =>
            /\ \A r \in Req : reqs[r].pc \in {"idle", "done"}
            /\ \A i \in DOMAIN cbs : cbs[i].pc \in {"idle", "done"}
    /\ now' = now + d
    /\ ticks' = ticks + 1
    /\ UNCHANGED <<backend, cached, oidcCalls, faults, clients, dcr, regs, stores, lastOp, ops, signed, http, authCodes, refreshTokens, locks, reqs, running, issued, rotated, codeUsed, minted,
                   sessions, oidcTxs, authz, consent, cbs, visits, mcp>>

\* ------------------------------------------------- signed state blobs
OidcCookieSecret == "cookie-secret"

base64urlEncode(x) == <<"b64", x>>
base64urlDecode(s) == s[2]

\* JSON.stringify of a payload: the undefined members of the embedded
\* ClientOAuthRequest (scope, state, code_challenge_method, resource) are left out
JsonStringifyPayload(payload) ==
    IF "oauth" \in DOMAIN payload
    THEN [payload EXCEPT !.oauth =
              [f \in {g \in DOMAIN payload.oauth : payload.oauth[g] # Undefined} |->
                   payload.oauth[f]]]
    ELSE payload

\* signState: `${hmac(secret, bodyB64)}.${bodyB64}`, times in seconds
signState(secret, payload, ttlSeconds, t) ==
    LET bodyB64 == base64urlEncode([payload |-> JsonStringifyPayload(payload),
                                    iat |-> t, exp |-> t + ttlSeconds])
    IN  [sig |-> hmacSha256Hex(secret, bodyB64), bodyB64 |-> bodyB64]

\* verifyState: the decoded body, or Null where the source throws
verifyState(secret, state, t) ==
    IF state.sig # hmacSha256Hex(secret, state.bodyB64) THEN Null
    ELSE IF base64urlDecode(state.bodyB64).exp < t THEN Null
    ELSE base64urlDecode(state.bodyB64)

\* ---------------------------------------------------- GET /oauth/authorize
NoCookie == [none |-> TRUE]
NoBlob == [none |-> TRUE]
UpstreamAuthorizationEndpoint == "https://idp.example/authorize"

getUserSession(be, m, id, t) ==
    LET raw == IF be = "redis" THEN RedisGet(m, id, t) ELSE MemoryGet(m, id)
    IN  IF raw = Null THEN Null
        ELSE IF ExpiredRecord(raw, t) THEN Null
        ELSE raw

\* variant: the cookie is decoded without verifying it
getSessionId_Unverified(be, m, cookie, t) ==
    IF cookie = NoCookie THEN Null
    ELSE IF getUserSession(be, m, base64urlDecode(cookie.bodyB64).payload.sessionId, t) = Null
         THEN Null
    ELSE [sessionId |-> base64urlDecode(cookie.bodyB64).payload.sessionId]

\* getSessionId: the session id of a verified cookie naming a live session
getSessionId(be, m, cookie, t) ==
    IF cookie = NoCookie THEN Null
    ELSE LET verified == verifyState(OidcCookieSecret, cookie, t)
         IN  IF verified = Null THEN Null
             ELSE IF "sessionId" \notin DOMAIN verified.payload THEN Null
             ELSE IF getUserSession(be, m, verified.payload.sessionId, t) = Null THEN Null
             ELSE [sessionId |-> verified.payload.sessionId]

getApprovedClientIds(cookie, t) ==
    IF cookie = NoCookie THEN {}
    ELSE LET verified == verifyState(OidcCookieSecret, cookie, t)
         IN  IF verified = Null THEN {}
             ELSE IF "approvedClientIds" \notin DOMAIN verified.payload THEN {}
             ELSE verified.payload.approvedClientIds

\* `if (oauthReq.state)`, `oauthReq.scope || ...`: undefined and '' are falsy
Truthy(x) == x # Undefined /\ x # ""

\* req.query[k] of a parameter given more than once: an array, not a string
RepeatedParam == "<array>"

\* get(k): typeof q[k] === 'string' ? q[k] : undefined
QueryGet(query, k) == IF query[k] = RepeatedParam THEN Undefined ELSE query[k]

\* get(k) || ''
QueryGetOrEmpty(query, k) == IF Truthy(QueryGet(query, k)) THEN QueryGet(query, k) ELSE ""

\* normalizeOauthReq: null unless client_id, redirect_uri, code_challenge are set
normalizeOauthReq(query) ==
    IF \/ QueryGetOrEmpty(query, "client_id") = ""
       \/ QueryGetOrEmpty(query, "redirect_uri") = ""
       \/ QueryGetOrEmpty(query, "code_challenge") = ""
    THEN Null
    ELSE [response_type |-> QueryGetOrEmpty(query, "response_type"),
          client_id |-> QueryGetOrEmpty(query, "client_id"),
          redirect_uri |-> QueryGetOrEmpty(query, "redirect_uri"),
          scope |-> QueryGet(query, "scope"),
          state |-> QueryGet(query, "state"),
          code_challenge |-> QueryGetOrEmpty(query, "code_challenge"),
          code_challenge_method |-> QueryGet(query, "code_challenge_method"),
          resource |-> QueryGet(query, "resource")]

\* variant: the code_challenge_method of the request is not looked at
OtherMethod_Ignored(oauthReq) == FALSE

\* oauthReq.code_challenge_method && oauthReq.code_challenge_method !== 'S256'
OtherMethod(oauthReq) ==
    Truthy(oauthReq.code_challenge_method) /\ oauthReq.code_challenge_method # "S256"

validateClientRequest(cl, oauthReq) ==
    IF oauthReq.response_type # "" /\ oauthReq.response_type # "code"
        THEN [ok |-> FALSE, error |-> "unsupported_response_type"]
    ELSE IF OtherMethod(oauthReq)
        THEN [ok |-> FALSE, error |-> "invalid_request"]
    ELSE IF oauthReq.client_id \notin DOMAIN cl
        THEN [ok |-> FALSE, error |-> "unauthorized_client"]
    ELSE IF ~Includes(cl[oauthReq.client_id].redirectUris, oauthReq.redirect_uri)
        THEN [ok |-> FALSE, error |-> "invalid_request"]
    ELSE [ok |-> TRUE, error |-> ""]

\* responses: an HTML/plain body, or a 302 to location with query parameters
SendPage(status, body) ==
    [status |-> status, kind |-> "page", location |-> "", body |-> body, blob |-> Null,
     error |-> Undefined, code |-> Undefined, state |-> Undefined]

\* variant: the state parameter is never set
StateParam_Dropped(oauthReq) == Undefined

\* the state parameter a redirect carries: set only when oauthReq.state is truthy
StateParam(oauthReq) == IF Truthy(oauthReq.state) THEN oauthReq.state ELSE Undefined

\* redirectWithError: 302 to oauthReq.redirect_uri?error=...&state=...
redirectWithError(oauthReq, error) ==
    [status |-> 302, kind |-> "redirect", location |-> oauthReq.redirect_uri, body |-> "",
     blob |-> Null, error |-> error, code |-> Undefined, state |-> StateParam(oauthReq)]

\* the record issueAuthCodeAndRedirect stores
NewAuthCode(code, oauthReq, userClaims, t) ==
    [code |-> code, clientId |-> oauthReq.client_id, redirectUri |-> oauthReq.redirect_uri,
     codeChallenge |-> oauthReq.code_challenge, codeChallengeMethod |-> "S256",
     scope |-> IF Truthy(oauthReq.scope) THEN oauthReq.scope ELSE "mcp:read",
     resource |-> oauthReq.resource, userClaims |-> userClaims,
     expiresAt |-> t + AUTH_CODE_TTL_MS \div 1000]

\* the redirect issueAuthCodeAndRedirect answers with
CodeRedirect(code, oauthReq) ==
    [status |-> 302, kind |-> "redirect", location |-> oauthReq.redirect_uri, body |-> "",
     blob |-> Null, error |-> Undefined, code |-> code, state |-> StateParam(oauthReq)]

NewOidcTx(txId, t) ==
    [txId |-> txId, codeVerifier |-> <<"verifier", txId>>, nonce |-> <<"nonce", txId>>,
     createdAt |-> t, expiresAt |-> t + 10 * 60]

\* GET /oauth/callback requests: one record per request in flight or answered
Cb == 1..MaxVisits

IdleCb ==
    [pc |-> "idle", visit |-> 0, state |-> NoBlob, approval |-> NoCookie,
     txId |-> Undefined, oauth |-> Null, tx |-> Null, passed |-> FALSE, claims |-> Null,
     resp |-> Null, setCookie |-> Null, sessionId |-> Undefined]

\* Only the latest answer is kept: when a browser request arrives, the records
\* of the requests answered before it are dropped.
AnsweredDropped == [i \in Cb |-> IF cbs[i].pc = "done" THEN IdleCb ELSE cbs[i]]

BrowserUnchanged ==
    UNCHANGED <<backend, cached, oidcCalls, ticks, faults, clients, dcr, regs, stores, lastOp, ops, signed, http, refreshTokens, locks, reqs, running,
                issued, rotated, codeUsed, minted, mcp>>

\* variant: consent is never asked for
NeedsConsent_Never(approved, clientId) == FALSE

\* !approved.has(oauthReq.client_id)
NeedsConsent(approved, clientId) == clientId \notin approved

\* router.get('/oauth/authorize', ...)
AuthorizeGet(query, sessionCookie, approvalCookie) ==
    /\ running = 0
    /\ visits < MaxVisits
    /\ visits' = visits + 1
    /\ LET oauthReq == normalizeOauthReq(query)
           validation == validateClientRequest(clients, oauthReq)
           session == getSessionId(backend, sessions, sessionCookie, now)
           txId == "tx" \o ToString(randomUUID(visits + 1))
           code == "k" \o ToString(randomToken(visits + 1))
           Answer(resp) == authz' = [req |-> query, session |-> sessionCookie,
                                     approval |-> approvalCookie, resp |-> resp]
       IN  IF oauthReq = Null THEN
               /\ Answer(SendPage(400, "Invalid authorization request"))
               /\ UNCHANGED <<authCodes, oidcTxs>>
           ELSE IF ~validation.ok THEN
               /\ Answer(redirectWithError(oauthReq, validation.error))
               /\ UNCHANGED <<authCodes, oidcTxs>>
           ELSE IF session = Null THEN
               /\ oidcTxs' = Put(oidcTxs, txId, StoreEntry(backend, NewOidcTx(txId, now), now))
               /\ Answer([status |-> 302, kind |-> "redirect",
                          location |-> UpstreamAuthorizationEndpoint, body |-> "",
                          error |-> Undefined, code |-> Undefined, state |-> Undefined,
                          blob |-> signState(OidcCookieSecret,
                                             [txId |-> txId, oauth |-> oauthReq],
                                             OIDC_STATE_TTL_SECONDS, now)])
               /\ UNCHANGED <<authCodes>>
           ELSE IF NeedsConsent(getApprovedClientIds(approvalCookie, now),
                                oauthReq.client_id) THEN
               /\ Answer([status |-> 200, kind |-> "consent", location |-> "", body |-> "",
                          blob |-> signState(OidcCookieSecret, [oauth |-> oauthReq],
                                             OIDC_STATE_TTL_SECONDS, now),
                          error |-> Undefined, code |-> Undefined, state |-> Undefined])
               /\ UNCHANGED <<authCodes, oidcTxs>>
           ELSE
               /\ authCodes' = Put(authCodes, code,
                     StoreEntry(backend,
                        NewAuthCode(code, oauthReq,
                            getUserSession(backend, sessions, session.sessionId, now).userClaims,
                            now), now))
               /\ Answer(CodeRedirect(code, oauthReq))
               /\ UNCHANGED <<oidcTxs>>
    /\ consent' = Null
    /\ cbs' = AnsweredDropped
    /\ BrowserUnchanged
    /\ UNCHANGED <<now, sessions>>

\* ------------------------------------------------------ POST /oauth/consent
OauthReqKeys ==
    {"response_type", "client_id", "redirect_uri", "scope", "state",
     "code_challenge", "code_challenge_method", "resource"}

\* the members a handler reads from a decoded ClientOAuthRequest: a member
\* JSON left out reads as undefined
ReadOauthReq(o) == [k \in OauthReqKeys |-> Field(o, k)]

\* renderConsent: the page carries a signed consent_state
ConsentPage(oauthReq, t) ==
    [status |-> 200, kind |-> "consent", location |-> "", body |-> "",
     blob |-> signState(OidcCookieSecret, [oauth |-> oauthReq], OIDC_STATE_TTL_SECONDS, t),
     error |-> Undefined, code |-> Undefined, state |-> Undefined]

\* setApprovalCookie: the Set-Cookie header of the response
ApprovalSetCookie(approvedClientIds, t) ==
    [name |-> "mcp-approved-clients",
     value |-> signState(OidcCookieSecret, [approvedClientIds |-> approvedClientIds],
                         APPROVAL_TTL_SECONDS, t)]

\* variant: every decision counts as approval
Refuses_Never(decision) == FALSE

\* decision !== 'approve'
Refuses(decision) == decision # "approve"

\* an exception in the async handler: Express 5 answers 500 through the
\* default error handler, Express 4 leaves the request unanswered (status 0)
ConsentThrown == {SendPage(st, "exception") : st \in {0, 500}}

\* router.post('/oauth/consent', ...)
ConsentPost(decision, consentState, sessionCookie, approvalCookie) ==
    /\ running = 0
    /\ visits < MaxVisits
    /\ visits' = visits + 1
    /\ LET verified == verifyState(OidcCookieSecret, consentState, now)
           oauthReq == ReadOauthReq(verified.payload.oauth)
           validation == validateClientRequest(clients, oauthReq)
           sessionId == getSessionId(backend, sessions, sessionCookie, now)
           code == "k" \o ToString(randomToken(visits + 1))
           Answer(resp, cookie) ==
               consent' = [req |-> [decision |-> decision, consent_state |-> consentState,
                                    session |-> sessionCookie],
                           resp |-> resp, setCookie |-> cookie]
       IN  IF consentState = NoBlob THEN
               /\ Answer(SendPage(400, "Missing consent_state"), Null)
               /\ UNCHANGED authCodes
           ELSE IF verified = Null THEN
               /\ Answer(SendPage(400, "Invalid consent_state"), Null)
               /\ UNCHANGED authCodes
           ELSE IF "oauth" \notin DOMAIN verified.payload THEN
               \* oauthReq is undefined: validateClientRequest throws on its
               \* first property read, outside the try block
               /\ \E resp \in ConsentThrown : Answer(resp, Null)
               /\ UNCHANGED authCodes
           ELSE IF ~validation.ok THEN
               /\ Answer(redirectWithError(oauthReq, validation.error), Null)
               /\ UNCHANGED authCodes
           ELSE IF sessionId = Null THEN
               /\ Answer(redirectWithError(oauthReq, "login_required"), Null)
               /\ UNCHANGED authCodes
           ELSE IF Refuses(decision) THEN
               /\ Answer(redirectWithError(oauthReq, "access_denied"), Null)
               /\ UNCHANGED authCodes
           ELSE
               /\ authCodes' = Put(authCodes, code,
                     StoreEntry(backend,
                        NewAuthCode(code, oauthReq,
                            getUserSession(backend, sessions, sessionId.sessionId, now).userClaims,
                            now), now))
               /\ Answer(CodeRedirect(code, oauthReq),
                         ApprovalSetCookie(getApprovedClientIds(approvalCookie, now)
                                               \cup {oauthReq.client_id}, now))
    /\ authz' = Null
    /\ cbs' = AnsweredDropped
    /\ BrowserUnchanged
    /\ UNCHANGED <<now, sessions, oidcTxs>>

\* ------------------------------------------------------ GET /oauth/callback
\* OIDC_REQUIRED_CLAIMS=sub,email
oidcRequiredClaims == {"sub", "email"}

JsonNull == "<null>"

\* what the identity provider may answer: authorizationCodeGrant throws (Null),
\* or ID-token claims come back and fetchUserInfo adds its own or fails (Null)
IdClaimSets ==
    {[iss |-> "idp", sub |-> "user-1", email |-> "user@example.com"],
     [iss |-> "idp", sub |-> "user-1"],
     [iss |-> "idp", sub |-> "user-1", email |-> JsonNull],
     [iss |-> "idp"]}

UserinfoSets == {Null, [sub |-> "user-1", email |-> "info@example.com"]}

UpstreamResults ==
    {Null} \cup [idClaims : IdClaimSets, userinfo : UserinfoSets]

\* userinfo is fetched only for a non-empty string sub; { ...userinfo, ...idClaims }
MergeClaims(idClaims, userinfo) ==
    LET sub == IF "sub" \in DOMAIN idClaims /\ idClaims.sub # JsonNull THEN idClaims.sub ELSE ""
        fetched == IF sub = "" THEN Null ELSE userinfo
    IN  IF fetched = Null THEN idClaims
        ELSE [k \in DOMAIN fetched \cup DOMAIN idClaims |->
                 IF k \in DOMAIN idClaims THEN idClaims[k] ELSE fetched[k]]

\* variant: userClaims[claim] === undefined
MissingClaim_UndefinedOnly(userClaims, claim) == Field(userClaims, claim) = Undefined

\* userClaims[claim] == null
MissingClaim(userClaims, claim) == Field(userClaims, claim) \in {Undefined, JsonNull}

\* variant: no claim is required
MissingRequiredClaims_None(userClaims) == {}

MissingRequiredClaims(userClaims) ==
    {claim \in oidcRequiredClaims : MissingClaim(userClaims, claim)}

NewUserSession(sessionId, userClaims, t) ==
    [sessionId |-> sessionId, userClaims |-> userClaims, upstreamRefreshTokenEnc |-> Undefined,
     createdAt |-> t, expiresAt |-> t + SESSION_TTL_SECONDS]

SessionSetCookie(sessionId, t) ==
    [name |-> "scsi_session",
     value |-> signState(OidcCookieSecret, [sessionId |-> sessionId], SESSION_TTL_SECONDS, t)]

\* the callback keeps the microtask queue while it waits on the in-memory store
CbOwner(i, q) == IF backend = "memory" /\ q.pc = "consume" THEN 0 - i ELSE 0

CbMayRun(i) == running \in {0, 0 - i}

SetCb(i, q) ==
    /\ cbs' = [cbs EXCEPT ![i] = q]
    /\ running' = CbOwner(i, q)

CbDone(q, resp) == [q EXCEPT !.pc = "done", !.resp = resp, !.tx = Null]

CallbackUnchanged ==
    UNCHANGED <<backend, cached, oidcCalls, ticks, faults, clients, dcr, regs, stores, lastOp, ops, signed, http, refreshTokens, locks, reqs,
                issued, rotated, codeUsed, minted, mcp>>

\* the handler up to storage.consumeOidcTx
CallbackReceive(i, code, state, approvalCookie) ==
    /\ running = 0
    /\ visits < MaxVisits
    /\ visits' = visits + 1
    /\ AnsweredDropped[i].pc = "idle"
    /\ \A j \in 1..(i - 1) : AnsweredDropped[j].pc # "idle"
    /\ LET q == [IdleCb EXCEPT !.visit = visits + 1, !.state = state, !.approval = approvalCookie]
           verified == verifyState(OidcCookieSecret, state, now)
           q1 == IF code = "" \/ state = NoBlob THEN
                     CbDone(q, SendPage(400, "Missing code or state"))
                 ELSE IF verified = Null THEN
                     CbDone(q, SendPage(400, "Invalid state"))
                 ELSE
                     [q EXCEPT !.pc = "consume",
                               !.txId = Field(verified.payload, "txId"),
                               !.oauth = ReadOauthReq(verified.payload.oauth)]
       IN  /\ cbs' = [AnsweredDropped EXCEPT ![i] = q1]
           /\ running' = CbOwner(i, q1)
    /\ authz' = Null
    /\ consent' = Null
    /\ CallbackUnchanged
    /\ UNCHANGED <<now, authCodes, sessions, oidcTxs>>

\* `if (!tx)` and validateClientRequest, after consumeOidcTx returned tx
AfterConsumeOidcTx(q, tx) ==
    IF tx = Null THEN CbDone(q, SendPage(400, "Invalid or expired transaction"))
    ELSE LET validation == validateClientRequest(clients, q.oauth)
         IN  IF ~validation.ok
             THEN CbDone([q EXCEPT !.passed = TRUE], redirectWithError(q.oauth, validation.error))
             ELSE [q EXCEPT !.pc = "grant", !.tx = tx, !.passed = TRUE]

\* variant: the transaction is read but not deleted
DeleteOidcTx_Kept(m, txId) == m

\* this.oidcTxs.delete(txId) / this.redis.del(key)
DeleteOidcTx(m, txId) == Del(m, txId)

\* MemoryOAuthStorage.consumeOidcTx: read, delete, expiry check, in one turn
CallbackConsume(i) ==
    /\ CbMayRun(i)
    /\ backend = "memory"
    /\ cbs[i].pc = "consume"
    /\ LET raw == MemoryGet(oidcTxs, cbs[i].txId)
           tx == IF raw = Null THEN Null ELSE IF ExpiredRecord(raw, now) THEN Null ELSE raw
       IN  /\ oidcTxs' = DeleteOidcTx(oidcTxs, cbs[i].txId)
           /\ SetCb(i, AfterConsumeOidcTx(cbs[i], tx))
    /\ CallbackUnchanged
    /\ UNCHANGED <<now, authz, consent, authCodes, sessions, visits>>

\* RedisOAuthStorage.consumeOidcTx, first half: GET; if (!raw) return null
CallbackRedisGet(i) ==
    /\ CbMayRun(i)
    /\ backend = "redis"
    /\ cbs[i].pc = "consume"
    /\ LET raw == RedisGet(oidcTxs, cbs[i].txId, now)
       IN  SetCb(i, IF raw = Null THEN AfterConsumeOidcTx(cbs[i], Null)
                    ELSE [cbs[i] EXCEPT !.pc = "consume_del", !.tx = raw])
    /\ CallbackUnchanged
    /\ UNCHANGED <<now, authz, consent, authCodes, sessions, oidcTxs, visits>>

\* RedisOAuthStorage.consumeOidcTx, second half: DEL, the expiry check, and the
\* handler's checks up to authorizationCodeGrant
CallbackRedisDel(i) ==
    /\ CbMayRun(i)
    /\ cbs[i].pc = "consume_del"
    /\ oidcTxs' = DeleteOidcTx(oidcTxs, cbs[i].txId)
    /\ SetCb(i, AfterConsumeOidcTx(cbs[i], IF ExpiredRecord(cbs[i].tx, now) THEN Null
                                           ELSE cbs[i].tx))
    /\ CallbackUnchanged
    /\ UNCHANGED <<now, authz, consent, authCodes, sessions, visits>>

\* variant: the session is stored under the id of the session that exists
CallbackSessionId_Reused(q) == "s1"

\* const sessionId = randomUUID(): a value no earlier call returned
CallbackSessionId(q) == "u" \o ToString(randomUUID(q.visit))

\* authorizationCodeGrant and everything after it
CallbackGrant(i, upstream) ==
    /\ CbMayRun(i)
    /\ cbs[i].pc = "grant"
    /\ LET q == cbs[i]
           userClaims == MergeClaims(upstream.idClaims, upstream.userinfo)
           sessionId == CallbackSessionId(q)
           code == "k" \o ToString(randomToken(q.visit))
           session == NewUserSession(sessionId, userClaims, now)
           cookie == SessionSetCookie(sessionId, now)
           merged == [q EXCEPT !.claims = userClaims]
           loggedIn == [merged EXCEPT !.sessionId = sessionId, !.setCookie = cookie]
       IN  IF upstream = Null THEN
               /\ SetCb(i, CbDone(q, SendPage(400, "OIDC callback failed")))
               /\ UNCHANGED <<sessions, authCodes>>
           ELSE IF MissingRequiredClaims(userClaims) # {} THEN
               /\ SetCb(i, CbDone(merged, SendPage(403, "Missing required claim")))
               /\ UNCHANGED <<sessions, authCodes>>
           ELSE IF NeedsConsent(getApprovedClientIds(q.approval, now), q.oauth.client_id) THEN
               /\ sessions' = Put(sessions, sessionId, StoreEntry(backend, session, now))
               /\ SetCb(i, CbDone(loggedIn, ConsentPage(q.oauth, now)))
               /\ UNCHANGED authCodes
           ELSE
               /\ sessions' = Put(sessions, sessionId, StoreEntry(backend, session, now))
               /\ authCodes' = Put(authCodes, code,
                     StoreEntry(backend, NewAuthCode(code, q.oauth, userClaims, now), now))
               /\ SetCb(i, CbDone(loggedIn, CodeRedirect(code, q.oauth)))
    /\ CallbackUnchanged
    /\ UNCHANGED <<now, authz, consent, oidcTxs, visits>>

\* ------------------------------------------------- bearerAuth, POST /mcp
\* variant: the audience is not compared
verifyAccessToken_AnyAudience(token, signingSecret, issuer, audience, t) ==
    IF token = NoJwt THEN Null
    ELSE IF token.sig # hmacSha256Hex(signingSecret, token.payload) THEN Null
    ELSE IF token.payload.iss # issuer THEN Null
    ELSE IF token.payload.exp <= t THEN Null
    ELSE token.payload

\* verifyAccessToken: jwtVerify(token, key, { issuer, audience }); the payload,
\* or Null where it throws
verifyAccessToken(token, signingSecret, issuer, audience, t) ==
    IF token = NoJwt THEN Null
    ELSE IF token.sig # hmacSha256Hex(signingSecret, token.payload) THEN Null
    ELSE IF token.payload.iss # issuer THEN Null
    ELSE IF token.payload.aud # audience THEN Null
    ELSE IF token.payload.exp <= t THEN Null
    ELSE token.payload

\* header.toLowerCase(), for the schemes in use
ToLowerCase(scheme) ==
    IF scheme \in {"Bearer", "bearer", "BEARER"} THEN "bearer"
    ELSE IF scheme \in {"Basic", "basic"} THEN "basic"
    ELSE scheme

\* variant: the extras are left out of the challenge
wwwAuthenticate_NoExtras(oauthServerUrl, extras) ==
    [scheme |-> "Bearer",
     params |-> [resource_metadata |->
                     oauthServerUrl \o "/.well-known/oauth-protected-resource/mcp"]]

\* wwwAuthenticate: the Bearer challenge, resource_metadata overlaid with the
\* extras; none of the values in use holds a double quote to be stripped
wwwAuthenticate(oauthServerUrl, extras) ==
    LET base == [resource_metadata |->
                     oauthServerUrl \o "/.well-known/oauth-protected-resource/mcp"]
    IN  [scheme |-> "Bearer",
         params |-> [k \in DOMAIN base \cup DOMAIN extras |->
                        IF k \in DOMAIN extras THEN extras[k] ELSE base[k]]]

\* no extras argument
NoExtras == << >>

IdleMcp ==
    [pc |-> "idle", header |-> NoHeader, status |-> 0, challenge |-> Null,
     mcpAuth |-> Null, store |-> Null,
     invoked |-> FALSE, seenOnReq |-> Null, seenInContext |-> Null]

\* als.getStore()?.claims in the asynchronous context of request r
getAuthClaims(m, r) == IF m[r].store = Null THEN Null ELSE m[r].store.claims

BearerUnchanged ==
    UNCHANGED <<backend, cached, oidcCalls, now, ticks, faults, clients, dcr, regs, stores, lastOp, ops, signed, http, authCodes, refreshTokens, locks,
                reqs, running, issued, rotated, codeUsed, minted,
                sessions, oidcTxs, authz, consent, cbs, visits>>

\* bearerAuth up to `await verifyAccessToken`
BearerReceive(r, header) ==
    /\ mcp[r].pc = "idle"
    /\ \A j \in 1..(r - 1) : mcp[j].pc # "idle"
    /\ LET q == [IdleMcp EXCEPT !.header = header]
       IN  mcp' = [mcp EXCEPT ![r] =
                      IF header = NoHeader \/ ToLowerCase(header.scheme) # "bearer"
                      THEN [q EXCEPT !.pc = "done", !.status = 401,
                                     !.challenge = wwwAuthenticate(OauthServerUrl, NoExtras)]
                      ELSE [q EXCEPT !.pc = "verify"]]
    /\ BearerUnchanged

\* verifyAccessToken returned or threw; the required-claim loop; req.mcpAuth;
\* runWithAuthClaims(claims, () => next())
BearerVerify(r) ==
    /\ mcp[r].pc = "verify"
    /\ LET q == mcp[r]
           claims == verifyAccessToken(q.header.token, JwtSigningSecret,
                                       OauthServerUrl, OauthServerUrl, now)
       IN  mcp' = [mcp EXCEPT ![r] =
                      IF claims = Null
                      THEN [q EXCEPT !.pc = "done", !.status = 401,
                                     !.challenge = wwwAuthenticate(OauthServerUrl,
                                                       [error |-> "invalid_token"])]
                      ELSE IF MissingRequiredClaims(claims) # {}
                           THEN [q EXCEPT !.pc = "done", !.status = 403]
                      ELSE [q EXCEPT !.pc = "handler", !.invoked = TRUE,
                                     !.mcpAuth = [claims |-> claims],
                                     !.store = [claims |-> claims]]]
    /\ BearerUnchanged

\* the downstream handler reads req.mcpAuth and getAuthClaims() and answers
McpHandler(r) ==
    /\ mcp[r].pc = "handler"
    /\ mcp' = [mcp EXCEPT ![r] = [@ EXCEPT !.pc = "done", !.status = 200,
                                           !.seenOnReq = mcp[r].mcpAuth.claims,
                                           !.seenInContext = getAuthClaims(mcp, r)]]
    /\ BearerUnchanged

\* ------------------------------------------------- POST /oauth/register
\* a JSON number, and a JSON string, where the handler expects an array
JsonNumber == "<number>"
JsonString == "<string>"

\* Array.isArray(v)
IsArray(v) == ~(v = Undefined \/ v = JsonNull \/ v = JsonNumber \/ v = JsonString)

\* typeof u === 'string'
IsString(u) == u \notin {Undefined, JsonNull, JsonNumber}

\* new URL(uri): protocol and hostname as the WHATWG parser gives them (scheme
\* and host in lower case, userinfo split off), Null where it throws
NewURL(uri) ==
    CASE uri = "https://app.example/cb" -> [protocol |-> "https:", hostname |-> "app.example"]
      [] uri = "http://localhost/callback" -> [protocol |-> "http:", hostname |-> "localhost"]
      [] uri = "HTTP://LOCALHOST:3000/cb" -> [protocol |-> "http:", hostname |-> "localhost"]
      [] uri = "http://127.0.0.1:8765/cb" -> [protocol |-> "http:", hostname |-> "127.0.0.1"]
      [] uri = "http://[::1]/cb" -> [protocol |-> "http:", hostname |-> "[::1]"]
      [] uri = "http://app.example/cb" -> [protocol |-> "http:", hostname |-> "app.example"]
      [] uri = "http://localhost@evil.example/cb"
            -> [protocol |-> "http:", hostname |-> "evil.example"]
      [] uri = "cursor://anysphere.cursor-retrieval/oauth/callback"
            -> [protocol |-> "cursor:", hostname |-> "anysphere.cursor-retrieval"]
      [] uri = "ftp://files.example/cb" -> [protocol |-> "ftp:", hostname |-> "files.example"]
      [] OTHER -> Null

\* variant: the host of an http URL is not looked at
isLocalhostRedirect_AnyHttp(uri) ==
    LET u == NewURL(uri)
    IN  IF u = Null THEN FALSE ELSE u.protocol \in {"https:", "http:"}

isLocalhostRedirect(uri) ==
    LET u == NewURL(uri)
    IN  IF u = Null THEN FALSE
        ELSE IF u.protocol = "https:" THEN TRUE
        ELSE IF u.protocol # "http:" THEN FALSE
        ELSE u.hostname \in {"localhost", "127.0.0.1", "[::1]"}

isCursorRedirect(uri) ==
    LET u == NewURL(uri)
    IN  IF u = Null THEN FALSE ELSE u.protocol = "cursor:"

\* body.x ?? fallback
OrDefault(v, fallback) == IF v = Undefined \/ v = JsonNull THEN fallback ELSE v

\* res.status(400).json({ error, ... })
DcrError(error) == [kind |-> "json", status |-> 400, error |-> error]

\* the handler from its entry to `await storage.createClient(metadata)`:
\* the 400 it sends, the metadata it is about to store, or "throw" where a
\* call on a value of the body raises a TypeError
RegisterOutcome(body, clientId, t) ==
    IF ~IsArray(body.redirect_uris) THEN DcrError("invalid_client_metadata")
    ELSE IF Len(body.redirect_uris) = 0 THEN DcrError("invalid_client_metadata")
    ELSE IF \E i \in DOMAIN body.redirect_uris : ~IsString(body.redirect_uris[i])
        THEN DcrError("invalid_client_metadata")
    ELSE IF \E i \in DOMAIN body.redirect_uris :
                /\ ~isLocalhostRedirect(body.redirect_uris[i])
                /\ ~isCursorRedirect(body.redirect_uris[i])
        THEN DcrError("invalid_redirect_uri")
    ELSE IF OrDefault(body.token_endpoint_auth_method, "none") # "none"
        THEN DcrError("invalid_client_metadata")
    ELSE LET grantTypes == OrDefault(body.grant_types, <<"authorization_code", "refresh_token">>)
             responseTypes == OrDefault(body.response_types, <<"code">>)
         IN  IF ~IsArray(grantTypes) THEN [kind |-> "throw"]
             ELSE IF ~Includes(grantTypes, "authorization_code")
                 THEN DcrError("invalid_client_metadata")
             ELSE IF ~IsArray(responseTypes) THEN [kind |-> "throw"]
             ELSE IF ~Includes(responseTypes, "code") THEN DcrError("invalid_client_metadata")
             ELSE [kind |-> "created",
                   metadata |-> [clientId |-> clientId, clientName |-> body.client_name,
                                 clientUri |-> body.client_uri,
                                 redirectUris |-> body.redirect_uris,
                                 grantTypes |-> grantTypes, responseTypes |-> responseTypes,
                                 tokenEndpointAuthMethod |-> "none", scope |-> body.scope,
                                 createdAtMs |-> t]]

\* JSON.stringify(client): members whose value is undefined are dropped
JsonStringifyClient(client) ==
    [f \in {g \in DOMAIN client :
               ~(g \in {"clientName", "clientUri", "scope"} /\ client[g] = Undefined)}
        |-> client[f]]

\* variant: the new client takes the place of the ones stored before
createClient_Replacing(be, m, client) ==
    Put(<< >>, client.clientId, IF be = "redis" THEN JsonStringifyClient(client) ELSE client)

\* createClient: Map.set(clientId, client) / SET oauth:client:<id> json (no EX)
createClient(be, m, client) ==
    Put(m, client.clientId, IF be = "redis" THEN JsonStringifyClient(client) ELSE client)

\* res.status(201).json({ client_id, ... })
DcrCreated(metadata) ==
    [kind |-> "json", status |-> 201, error |-> "",
     client_id |-> metadata.clientId, redirect_uris |-> metadata.redirectUris,
     grant_types |-> metadata.grantTypes, response_types |-> metadata.responseTypes,
     token_endpoint_auth_method |-> "none"]

\* a TypeError leaves the async handler as a rejected promise: Express 5 hands
\* it to the default error handler (500), Express 4 leaves the request
\* without a response (status 0)
DcrThrown == {[kind |-> "error", status |-> st, error |-> ""] : st \in {0, 500}}

\* POST /oauth/register
Register(body) ==
    /\ regs < MaxRegs
    /\ regs' = regs + 1
    /\ LET clientId == "dcr-" \o ToString(randomUUID(regs + 1))
           outcome == RegisterOutcome(body, clientId, now)
       IN  CASE outcome.kind = "created" ->
                  /\ clients' = createClient(backend, clients, outcome.metadata)
                  /\ dcr' = [req |-> body, resp |-> DcrCreated(outcome.metadata)]
             [] outcome.kind = "throw" ->
                  /\ clients' = clients
                  /\ \E resp \in DcrThrown : dcr' = [req |-> body, resp |-> resp]
             [] OTHER ->
                  /\ clients' = clients
                  /\ dcr' = [req |-> body, resp |-> outcome]
    /\ UNCHANGED <<backend, cached, oidcCalls, now, ticks, faults, stores, lastOp, ops, signed, http,
                   authCodes, refreshTokens, locks,
                   reqs, running, issued, rotated, codeUsed, minted,
                   sessions, oidcTxs, authz, consent, cbs, visits, mcp>>

\* ------------------------------------------------- getOidcClient
\* cfg.oidcIssuer of the configurations a call may be made with
OidcIssuers == {"https://idp.example", "https://idp2.example"}

\* calls of getOidcClient, overlapping or not: one by each GET /oauth/authorize
\* without a session and one by the callback that follows the first
OidcCall == 1..(MaxVisits + 1)

IdleOidcCall ==
    [pc |-> "idle", issuer |-> "", discovered |-> FALSE, result |-> Null, threw |-> FALSE]

\* variant: a cached bundle is returned whatever issuer it was discovered for
CacheHit_AnyIssuer(entry, issuer) == entry # Null

\* cached && cached.issuer === cfg.oidcIssuer
CacheHit(entry, issuer) == entry # Null /\ entry.issuer = issuer

\* { config, redirectUri }: the Configuration that discovery returned to call c
NewBundle(c, issuer, oauthServerUrl) ==
    [config |-> [server |-> issuer, object |-> c],
     redirectUri |-> oauthServerUrl \o "/oauth/callback"]

OidcUnchanged ==
    UNCHANGED <<backend, now, ticks, faults, clients, dcr, regs, stores, lastOp, ops, signed,
                http, authCodes, refreshTokens, locks, reqs, running, issued, rotated,
                codeUsed, minted, sessions, oidcTxs, authz, consent, cbs, visits, mcp>>

\* getOidcClient(cfg) up to its first await: the cache test
GetOidcClient(c, issuer) ==
    /\ oidcCalls[c].pc = "idle"
    /\ \A b \in 1..(c - 1) : oidcCalls[b].pc # "idle"
    /\ oidcCalls' = [oidcCalls EXCEPT ![c] =
            IF CacheHit(cached, issuer)
            THEN [@ EXCEPT !.pc = "done", !.issuer = issuer, !.result = cached.bundle]
            ELSE [@ EXCEPT !.pc = "discovery", !.issuer = issuer, !.discovered = TRUE]]
    /\ UNCHANGED cached
    /\ OidcUnchanged

\* oidc.discovery(...) resolved: the bundle is built, cached and returned
DiscoveryResolves(c) ==
    /\ oidcCalls[c].pc = "discovery"
    /\ LET bundle == NewBundle(c, oidcCalls[c].issuer, OauthServerUrl)
       IN  /\ cached' = [issuer |-> oidcCalls[c].issuer, bundle |-> bundle]
           /\ oidcCalls' = [oidcCalls EXCEPT ![c] = [@ EXCEPT !.pc = "done", !.result = bundle]]
    /\ OidcUnchanged

\* the import or oidc.discovery(...) rejected: the call throws
DiscoveryRejects(c) ==
    /\ oidcCalls[c].pc = "discovery"
    /\ oidcCalls' = [oidcCalls EXCEPT ![c] = [@ EXCEPT !.pc = "done", !.threw = TRUE]]
    /\ UNCHANGED cached
    /\ OidcUnchanged

\* ------------------------------------------------------------ initial states
U1 == "https://app.example/cb"
U2 == "http://localhost/callback"

\* two clients registered through POST /oauth/register
RegisteredClients ==
    [c \in {"c1", "c2"} |->
        [clientId |-> c, redirectUris |-> IF c = "c1" THEN <<U1>> ELSE <<U2>>,
         grantTypes |-> <<"authorization_code", "refresh_token">>,
         responseTypes |-> <<"code">>, tokenEndpointAuthMethod |-> "none"]]

UserClaims == [sub |-> "user-1", email |-> "user@example.com"]

\* the record issueAuthCodeAndRedirect stores for client c1 at time 0
SeedCode ==
    [code |-> "k1", clientId |-> "c1", redirectUri |-> U1,
     codeChallenge |-> sha256Base64url("v1"), codeChallengeMethod |-> "S256",
     scope |-> "mcp:read", resource |-> Undefined, userClaims |-> UserClaims,
     expiresAt |-> AUTH_CODE_TTL_MS \div 1000]

\* the refresh record the exchange of SeedCode stores at time 0 (token 1)
SeedRefresh == NewRefreshRecord([clientId |-> "c1"], SeedCode, 1, 0)

InitCommon ==
    /\ backend \in {"memory", "redis"}
    /\ now = 0
    /\ ticks = 0
    /\ faults = 0
    /\ clients = RegisteredClients
    /\ dcr = Null
    /\ regs = 0
    /\ stores = [be \in {"memory", "redis"} |-> EmptyStorage]
    /\ lastOp = Null
    /\ ops = 0
    /\ signed = Null
    /\ http = Null
    /\ cached = Null
    /\ oidcCalls = [c \in OidcCall |-> IdleOidcCall]
    /\ locks = << >>
    /\ reqs = [r \in Req |-> IdleReq]
    /\ running = 0
    /\ rotated = {}
    /\ authz = Null
    /\ consent = Null
    /\ cbs = [i \in Cb |-> IdleCb]
    /\ visits = 0
    /\ mcp = [r \in Req |-> IdleMcp]

\* a code has been issued and not yet exchanged
InitCode ==
    /\ InitCommon
    /\ sessions = << >>
    /\ oidcTxs = << >>
    /\ authCodes = Put(<< >>, "k1", StoreEntry(backend, SeedCode, 0))
    /\ refreshTokens = << >>
    /\ issued = {}
    /\ codeUsed = {}
    /\ minted = << >>

\* the code has been exchanged: one refresh chain exists, its token is 1
Init ==
    /\ InitCommon
    /\ sessions = << >>
    /\ oidcTxs = << >>
    /\ authCodes = << >>
    /\ refreshTokens = putRefreshToken(backend, << >>, SeedRefresh, 0)
    /\ issued = {1}
    /\ codeUsed = {"k1"}
    /\ minted = Put(<< >>, SeedRefresh.refreshTokenHash,
                    [chain |-> 0, expiresAt |-> SeedRefresh.expiresAt])

\* ------------------------------------------------------------------ inputs
ClientInputs == {"c1", "c2", "cX"}      \* cX is not registered

EmptyBody ==
    [grant_type |-> "", client_id |-> "", code |-> "", redirect_uri |-> "",
     code_verifier |-> "", refresh_token |-> NoToken]

\* One body per way through the handler: an unknown client is refused before
\* the token is looked at, an unknown token before the client is compared.
RefreshInputs ==
    {p \in ClientInputs \X (issued \cup {BogusToken}) :
        /\ p[1] = "cX" => p[2] = 1
        /\ p[2] = BogusToken => p[1] = "c1"}

RefreshBodies ==
    {[EmptyBody EXCEPT !.grant_type = "refresh_token", !.client_id = p[1],
                       !.refresh_token = p[2]] : p \in RefreshInputs}

CodeBodies ==
    {[EmptyBody EXCEPT !.grant_type = "authorization_code", !.client_id = c, !.code = "k1",
                       !.redirect_uri = u, !.code_verifier = v] :
        c \in ClientInputs, u \in {U1, U2}, v \in {"v1", "v2", ""}}

\* a client posts a refresh_token request / an authorization_code request
RefreshRequest(r) == \E body \in RefreshBodies : TokenReceive(r, body)

CodeRequest(r) == \E body \in CodeBodies : TokenReceive(r, body)

\* ---------------------------------------------------------- specifications
\* refresh-token rotation
Next ==
    \/ \E r \in Req : RefreshRequest(r)
    \/ \E r \in Req : RtAcquire(r)
    \/ \E r \in Req : RtGet(r)
    \/ \E r \in Req : RtRotate(r)
    \/ \E r \in Req : RtDelete(r)
    \/ \E r \in Req : RtThrow(r)
    \/ \E r \in Req : RtRelease(r)
    \/ \E d \in RefreshTickSteps : Tick(d)

Spec == Init /\ [][Next]_vars

\* authorization-code exchange
NextCode ==
    \/ \E r \in Req : CodeRequest(r)
    \/ \E r \in Req : AcConsume(r)
    \/ \E r \in Req : AcRedisGet(r)
    \/ \E r \in Req : AcRedisDel(r)
    \/ \E r \in Req : AcIssue(r)
    \/ \E d \in CodeTickSteps : Tick(d)

SpecCode == InitCode /\ [][NextCode]_vars

\* the browser flow: a user has logged in (session s1, created by
\* GET /oauth/callback at time 0) and may have approved client c1; another
\* login, started by GET /oauth/authorize at time 0, waits for its callback (tx0)
SeedSession ==
    [sessionId |-> "s1", userClaims |-> UserClaims, upstreamRefreshTokenEnc |-> Undefined,
     createdAt |-> 0, expiresAt |-> SESSION_TTL_SECONDS]

\* the request of client c1 that started the login tx0
SeedOauthReq ==
    [response_type |-> "code", client_id |-> "c1", redirect_uri |-> U1, scope |-> Undefined,
     state |-> "st-1", code_challenge |-> sha256Base64url("v1"),
     code_challenge_method |-> "S256", resource |-> Undefined]

SeedOidcState ==
    signState(OidcCookieSecret, [txId |-> "tx0", oauth |-> SeedOauthReq],
              OIDC_STATE_TTL_SECONDS, 0)

\* the consent_state of a consent page rendered for that request at time 0
SeedConsentState ==
    signState(OidcCookieSecret, [oauth |-> SeedOauthReq], OIDC_STATE_TTL_SECONDS, 0)

InitBrowser ==
    /\ InitCommon
    /\ sessions = Put(<< >>, "s1", StoreEntry(backend, SeedSession, 0))
    /\ oidcTxs = Put(<< >>, "tx0", StoreEntry(backend, NewOidcTx("tx0", 0), 0))
    /\ authCodes = << >>
    /\ refreshTokens = << >>
    /\ issued = {}
    /\ codeUsed = {}
    /\ minted = << >>

EvilUri == "https://evil.example/cb"

AllQueries ==
    [response_type : {"code", "token"},
     client_id : {"c1", "cX"},
     redirect_uri : {U1, EvilUri},
     scope : {Undefined},
     state : {"st-1", "", Undefined},
     code_challenge : {sha256Base64url("v1"), ""},
     code_challenge_method : {"S256", "plain"},
     resource : {Undefined}]

\* the members of a query that differ from the request client c1 is registered for
Deviations(query) ==
    {k \in {"response_type", "client_id", "code_challenge", "code_challenge_method"} :
        query[k] # SeedOauthReq[k]}

\* One query per way through the handler: at most one member is wrong; an
\* unregistered redirect_uri comes alone or with an unknown client; the state
\* parameter varies on the requests that are otherwise right.
Queries ==
    {query \in AllQueries :
        /\ Cardinality(Deviations(query)) <= 1
        /\ query.redirect_uri = EvilUri => Deviations(query) \subseteq {"client_id"}
        /\ query.state # "st-1" => (Deviations(query) = {} /\ query.redirect_uri = U1)}

\* cookies a browser may send: none, the one the server set, a forged one, and
\* one the server set for a session that is gone
SeedSessionCookie ==
    signState(OidcCookieSecret, [sessionId |-> "s1"], SESSION_TTL_SECONDS, 0)

ForgedSessionCookie == signState("guess", [sessionId |-> "s1"], SESSION_TTL_SECONDS, 0)

StaleSessionCookie ==
    signState(OidcCookieSecret, [sessionId |-> "s0"], SESSION_TTL_SECONDS, 0)

SessionCookies == {NoCookie, SeedSessionCookie, ForgedSessionCookie, StaleSessionCookie}

SeedApprovalCookie ==
    signState(OidcCookieSecret, [approvedClientIds |-> {"c1"}], APPROVAL_TTL_SECONDS, 0)

ApprovalCookies == {NoCookie, SeedApprovalCookie}

\* ... and the cookies the responses so far have set
SetSessionCookies == {cbs[i].setCookie.value : i \in {j \in Cb : cbs[j].setCookie # Null}}

SetApprovalCookies ==
    IF consent = Null THEN {}
    ELSE IF consent.setCookie = Null THEN {} ELSE {consent.setCookie.value}

\* signed blobs the responses so far have handed to the browser
HandedBlobs ==
    (IF authz = Null THEN {} ELSE IF authz.resp.blob = Null THEN {} ELSE {authz.resp.blob})
    \cup {cbs[i].resp.blob : i \in {j \in Cb : cbs[j].pc = "done" /\ cbs[j].resp.blob # Null}}

ForgedState == signState("guess", [txId |-> "tx0", oauth |-> SeedOauthReq],
                         OIDC_STATE_TTL_SECONDS, 0)

ConsentStates == {NoBlob, SeedConsentState, ForgedState} \cup HandedBlobs

CallbackStates == {NoBlob, SeedOidcState, ForgedState} \cup HandedBlobs

Decisions == {"approve", "deny"}

UpstreamCodes == {"", "upstream-code"}

\* A request that fails validation is refused before its cookies are looked
\* at; a request without a state parameter comes from the logged-in browser.
AuthorizeInputs ==
    {p \in Queries \X (SessionCookies \cup SetSessionCookies)
                   \X (ApprovalCookies \cup SetApprovalCookies) :
        /\ (Deviations(p[1]) # {} \/ p[1].redirect_uri = EvilUri) =>
               (p[2] = NoCookie /\ p[3] = NoCookie)
        /\ p[1].state # "st-1" => p[2] = SeedSessionCookie}

Authorize == \E p \in AuthorizeInputs : AuthorizeGet(p[1], p[2], p[3])

\* One form per way through the handler: a missing or forged consent_state is
\* refused before the decision and the cookies are looked at.
ConsentInputs ==
    {p \in Decisions \X ConsentStates
             \X ({NoCookie, SeedSessionCookie} \cup SetSessionCookies) :
        p[2] \in {NoBlob, ForgedState} => (p[1] = "deny" /\ p[3] = NoCookie)}

Consent ==
    \E p \in ConsentInputs, ac \in ApprovalCookies \cup SetApprovalCookies :
        ConsentPost(p[1], p[2], p[3], ac)

\* One query per way through the handler: a missing code or a missing or forged
\* state is refused before the approval cookie is looked at.
CallbackInputs ==
    {p \in UpstreamCodes \X CallbackStates \X (ApprovalCookies \cup SetApprovalCookies) :
        /\ p[1] = "" => (p[2] = SeedOidcState /\ p[3] = NoCookie)
        /\ p[2] \in {NoBlob, ForgedState} => p[3] = NoCookie}

Callback(i) == \E p \in CallbackInputs : CallbackReceive(i, p[1], p[2], p[3])

NextBrowser ==
    \/ Authorize
    \/ Consent
    \/ \E i \in Cb : Callback(i)
    \/ \E i \in Cb : CallbackConsume(i)
    \/ \E i \in Cb : CallbackRedisGet(i)
    \/ \E i \in Cb : CallbackRedisDel(i)
    \/ \E i \in Cb : \E upstream \in UpstreamResults : CallbackGrant(i, upstream)
    \/ \E d \in BrowserTickSteps : Tick(d)

SpecBrowser == InitBrowser /\ [][NextBrowser]_vars

\* client registration: one body per way through the handler, and bodies that
\* break two rules at once
ValidDcrBody ==
    [redirect_uris |-> <<U1>>, token_endpoint_auth_method |-> Undefined,
     grant_types |-> Undefined, response_types |-> Undefined,
     client_name |-> "Cursor", client_uri |-> Undefined, scope |-> Undefined]

FtpUri == "ftp://files.example/cb"
CursorUri == "cursor://anysphere.cursor-retrieval/oauth/callback"

\* values of different JSON types are kept in sequences
DcrUris ==
    <<U1, U2, "HTTP://LOCALHOST:3000/cb", "http://127.0.0.1:8765/cb", "http://[::1]/cb",
      "http://app.example/cb", "http://localhost@evil.example/cb", CursorUri, FtpUri,
      "not a url">>

RedirectUriLists ==
    [i \in DOMAIN DcrUris |-> <<DcrUris[i]>>]
    \o <<Undefined, JsonString, << >>, <<U1, FtpUri>>, <<FtpUri, U1>>, <<U2, CursorUri>>,
         <<U1, JsonNumber>>, <<JsonNumber, FtpUri>> >>

AuthMethods == <<"none", JsonNull, "client_secret_basic">>

GrantTypeLists ==
    << <<"authorization_code">>, <<"refresh_token", "authorization_code">>,
       <<"refresh_token">>, << >>, JsonNumber >>

ResponseTypeLists == << <<"code">>, <<"token">>, JsonNumber >>

DcrBodies ==
    [i \in DOMAIN RedirectUriLists |->
        [ValidDcrBody EXCEPT !.redirect_uris = RedirectUriLists[i]]]
    \o [i \in DOMAIN AuthMethods |->
        [ValidDcrBody EXCEPT !.token_endpoint_auth_method = AuthMethods[i]]]
    \o [i \in DOMAIN GrantTypeLists |->
        [ValidDcrBody EXCEPT !.grant_types = GrantTypeLists[i]]]
    \o [i \in DOMAIN ResponseTypeLists |->
        [ValidDcrBody EXCEPT !.response_types = ResponseTypeLists[i]]]
    \o <<[ValidDcrBody EXCEPT !.redirect_uris = <<FtpUri>>,
                              !.token_endpoint_auth_method = "client_secret_basic"],
         [ValidDcrBody EXCEPT !.redirect_uris = <<FtpUri>>, !.grant_types = JsonNumber],
         [ValidDcrBody EXCEPT !.token_endpoint_auth_method = "client_secret_basic",
                              !.grant_types = JsonNumber],
         [ValidDcrBody EXCEPT !.grant_types = <<"refresh_token">>,
                              !.response_types = JsonNumber],
         [ValidDcrBody EXCEPT !.redirect_uris = Undefined, !.client_name = Undefined]>>

NextDcr ==
    \E i \in DOMAIN DcrBodies : Register(DcrBodies[i])

SpecDcr == InitCode /\ [][NextDcr]_vars

\* from login to refresh: the browser of the user logs in upstream, approves
\* client c1, and the client exchanges the codes and rotates the tokens it gets,
\* one request after the other
NoneInFlight ==
    /\ \A r \in Req : reqs[r].pc \in {"idle", "done"}
    /\ \A i \in Cb : cbs[i].pc \in {"idle", "done"}

FlowCallback(i) ==
    /\ NoneInFlight
    /\ \E state \in {SeedOidcState} \cup HandedBlobs, ac \in ApprovalCookies :
        CallbackReceive(i, "upstream-code", state, ac)

FlowAuthorize ==
    /\ NoneInFlight
    /\ \E sc \in {SeedSessionCookie} \cup SetSessionCookies,
          ac \in ApprovalCookies \cup SetApprovalCookies :
           AuthorizeGet(SeedOauthReq, sc, ac)

FlowConsent ==
    /\ NoneInFlight
    /\ \E cs \in HandedBlobs, sc \in {SeedSessionCookie} \cup SetSessionCookies :
           ConsentPost("approve", cs, sc, NoCookie)

FlowCodeBodies ==
    {[EmptyBody EXCEPT !.grant_type = "authorization_code", !.client_id = "c1", !.code = k,
                       !.redirect_uri = U1, !.code_verifier = "v1"] : k \in DOMAIN authCodes}

FlowRefreshBodies ==
    {[EmptyBody EXCEPT !.grant_type = "refresh_token", !.client_id = "c1",
                       !.refresh_token = t] : t \in issued}

FlowTokenRequest(r) ==
    /\ NoneInFlight
    /\ \E body \in FlowCodeBodies \cup FlowRefreshBodies : TokenReceive(r, body)

\* a client registers between the other requests
FlowRegister ==
    /\ NoneInFlight
    /\ Register(ValidDcrBody)

NextFlow ==
    \/ FlowRegister
    \/ FlowAuthorize
    \/ FlowConsent
    \/ \E i \in Cb : FlowCallback(i)
    \/ \E i \in Cb : CallbackConsume(i)
    \/ \E i \in Cb : CallbackRedisGet(i)
    \/ \E i \in Cb : CallbackRedisDel(i)
    \/ \E i \in Cb : \E upstream \in UpstreamResults : CallbackGrant(i, upstream)
    \/ \E r \in Req : FlowTokenRequest(r)
    \/ \E r \in Req : AcConsume(r)
    \/ \E r \in Req : AcRedisGet(r)
    \/ \E r \in Req : AcRedisDel(r)
    \/ \E r \in Req : AcIssue(r)
    \/ \E r \in Req : RtAcquire(r)
    \/ \E r \in Req : RtGet(r)
    \/ \E r \in Req : RtRotate(r)
    \/ \E r \in Req : RtDelete(r)
    \/ \E r \in Req : RtRelease(r)

SpecFlow == InitBrowser /\ [][NextFlow]_vars

\* the protected endpoint: access tokens the token endpoint has minted for two
\* users, tokens it minted that have run out or that lack a claim the
\* deployment now requires, and tokens that were not minted for this server
MintedFor(userClaims, t) ==
    signAccessToken(JwtSigningSecret, OauthServerUrl, OauthServerUrl, Subject(userClaims),
                    "mcp:read", ACCESS_TOKEN_TTL_SECONDS, userClaims, t)

OtherUserClaims == [sub |-> "user-2", email |-> "other@example.com"]

AccessTokens ==
    {NoJwt,
     MintedFor(UserClaims, 0),
     MintedFor(OtherUserClaims, 0),
     MintedFor(UserClaims, 0 - ACCESS_TOKEN_TTL_SECONDS),
     MintedFor([sub |-> "user-1"], 0),
     MintedFor([sub |-> "user-1", email |-> JsonNull], 0),
     signAccessToken("guess", OauthServerUrl, OauthServerUrl, "user-1", "mcp:read",
                     ACCESS_TOKEN_TTL_SECONDS, UserClaims, 0),
     signAccessToken(JwtSigningSecret, "https://other.example", OauthServerUrl, "user-1",
                     "mcp:read", ACCESS_TOKEN_TTL_SECONDS, UserClaims, 0),
     signAccessToken(JwtSigningSecret, OauthServerUrl, "https://other.example", "user-1",
                     "mcp:read", ACCESS_TOKEN_TTL_SECONDS, UserClaims, 0)}

\* Authorization headers: none, another scheme, and Bearer in either case
AuthorizationHeaders ==
    {NoHeader,
     [scheme |-> "Basic", token |-> MintedFor(UserClaims, 0)],
     [scheme |-> "bearer", token |-> MintedFor(UserClaims, 0)]}
    \cup {[scheme |-> "Bearer", token |-> t] : t \in AccessTokens}

NextBearer ==
    \/ \E r \in Req : \E header \in AuthorizationHeaders : BearerReceive(r, header)
    \/ \E r \in Req : BearerVerify(r)
    \/ \E r \in Req : McpHandler(r)

SpecBearer == InitCode /\ [][NextBearer]_vars


\* ---------------------------------------------- the two backends side by side
\* putAuthCode / putRefreshToken / putUserSession / putOidcTx: Map.set, or
\* SET key json EX ttl
putRecord(be, m, key, rec, t) == Put(m, key, StoreEntry(be, rec, t))

\* variant of consumeRecord: the expiry check after the read is missing
consumeRecord_NoExpiryCheck(be, m, key, t) ==
    LET raw == IF be = "redis" THEN RedisGet(m, key, t) ELSE MemoryGet(m, key)
    IN  [result |-> raw, store |-> IF raw = Null THEN m ELSE Del(m, key)]

\* consumeAuthCode / consumeOidcTx as one call: the read, the delete of a
\* record that was found, the expiry check
consumeRecord(be, m, key, t) ==
    LET raw == IF be = "redis" THEN RedisGet(m, key, t) ELSE MemoryGet(m, key)
    IN  [result |-> IF raw = Null THEN Null
                    ELSE IF ExpiredRecord(raw, t) THEN Null
                    ELSE raw,
         store |-> IF raw = Null THEN m ELSE Del(m, key)]

\* the map a call of the OAuthStorage interface works on
MapOf(name) ==
    CASE name \in {"putAuthCode", "consumeAuthCode"} -> "authCodes"
      [] name \in {"putRefreshToken", "getRefreshTokenByHash", "deleteRefreshTokenByHash"}
            -> "refreshTokens"
      [] name \in {"putUserSession", "getUserSession", "deleteUserSession"} -> "sessions"
      [] name \in {"putOidcTx", "consumeOidcTx"} -> "oidcTxs"
      [] OTHER -> "locks"

\* one call on one backend: what it returns (Null for void) and the storage
\* it leaves
StorageCall(be, st, call, t) ==
    LET name == call.name
        m == st[MapOf(name)]
        Returns(result, after) == [result |-> result, storage |-> [st EXCEPT ![MapOf(name)] = after]]
    IN  CASE name \in {"putAuthCode", "putUserSession", "putOidcTx"} ->
                Returns(Null, putRecord(be, m, call.key, call.rec, t))
          [] name = "putRefreshToken" -> Returns(Null, putRefreshToken(be, m, call.rec, t))
          [] name \in {"consumeAuthCode", "consumeOidcTx"} ->
                Returns(consumeRecord(be, m, call.key, t).result,
                        consumeRecord(be, m, call.key, t).store)
          [] name = "getRefreshTokenByHash" ->
                Returns(getRefreshTokenByHash(be, m, call.key, t), m)
          [] name = "getUserSession" -> Returns(getUserSession(be, m, call.key, t), m)
          [] name = "deleteRefreshTokenByHash" ->
                Returns(Null, deleteRefreshTokenByHash(m, call.key))
          [] name = "deleteUserSession" -> Returns(Null, Del(m, call.key))
          [] name = "acquireLock" ->
                LET after == acquireLock(be, m, call.key, LOCK_TTL_SECONDS, call.token, t)
                IN  Returns(IF after = m THEN Null ELSE [token |-> call.token], after)
          [] OTHER -> Returns(Null, releaseLock(be, m, call.key, call.token, t))

\* the calls made on both backends: the records the handlers build at time t
\* under one key per map, and one lock key (a sequence: the keys differ in kind)
StorageCalls(t, n) ==
    LET call(name, key, rec, token) == [name |-> name, key |-> key, rec |-> rec, token |-> token]
        rt == NewRefreshRecord([clientId |-> "c1"], SeedCode, 1, t)
    IN  <<call("putAuthCode", "k1", [SeedCode EXCEPT !.expiresAt = t + AUTH_CODE_TTL_MS \div 1000], 0),
          call("consumeAuthCode", "k1", Null, 0),
          call("putRefreshToken", rt.refreshTokenHash, rt, 0),
          call("getRefreshTokenByHash", rt.refreshTokenHash, Null, 0),
          call("deleteRefreshTokenByHash", rt.refreshTokenHash, Null, 0),
          call("putUserSession", "s1", NewUserSession("s1", UserClaims, t), 0),
          call("getUserSession", "s1", Null, 0),
          call("deleteUserSession", "s1", Null, 0),
          call("putOidcTx", "tx0", NewOidcTx("tx0", t), 0),
          call("consumeOidcTx", "tx0", Null, 0),
          call("acquireLock", LockKey("h"), Null, randomUUID(n))>>
        \o [tok \in 1..(n - 1) |-> call("releaseLock", LockKey("h"), Null, tok)]

\* the same call on both backends, one call at a time
Storage(call) ==
    /\ ops < MaxOps
    /\ ops' = ops + 1
    /\ LET memory == StorageCall("memory", stores["memory"], call, now)
           redis == StorageCall("redis", stores["redis"], call, now)
           lockRunsOut == /\ call.name = "acquireLock"
                          /\ \E be \in DOMAIN stores :
                                /\ call.key \in DOMAIN stores[be].locks
                                /\ stores[be].locks[call.key].expiresAt = now
       IN  /\ stores' = [be \in {"memory", "redis"} |->
                            IF be = "memory" THEN memory.storage ELSE redis.storage]
           /\ lastOp' = [name |-> call.name, key |-> call.key,
                         memory |-> memory.result, redis |-> redis.result,
                         onExpiry |-> lockRunsOut
                                      \/ (lastOp # Null /\ lastOp.onExpiry)]
    /\ UNCHANGED <<backend, cached, oidcCalls, now, ticks, faults, clients, dcr, regs, signed, http,
                   authCodes, refreshTokens, locks,
                   reqs, running, issued, rotated, codeUsed, minted,
                   sessions, oidcTxs, authz, consent, cbs, visits, mcp>>

\* clock steps up to, and past, the time each kind of record and the lock lives
StorageTickSteps ==
    {LOCK_TTL_SECONDS, LOCK_TTL_SECONDS + 1,
     AUTH_CODE_TTL_MS \div 1000, AUTH_CODE_TTL_MS \div 1000 + 1,
     SESSION_TTL_SECONDS, SESSION_TTL_SECONDS + 1}

NextStorage ==
    \/ \E i \in DOMAIN StorageCalls(now, ops + 1) : Storage(StorageCalls(now, ops + 1)[i])
    \/ \E d \in StorageTickSteps : Tick(d)

InitStorage ==
    /\ InitCode
    /\ backend = "memory"

SpecStorage == InitStorage /\ [][NextStorage]_vars

\* ------------------------------------------------ state blobs on their own
\* the text of a token, `${sig}.${bodyB64}`, as the parts between its dots
StateText(state) == <<state.sig, state.bodyB64>>

\* state.split('.', 2): the first two parts; what follows a second dot is dropped
SplitLimit2(parts) == SubSeq(parts, 1, IF Len(parts) < 2 THEN Len(parts) ELSE 2)

\* verifyState on the text of a token: Null where the source throws
verifyStateText(secret, parts, t) ==
    LET split == SplitLimit2(parts)
    IN  IF Len(split) < 2 THEN Null
        ELSE IF split[1] = "" \/ split[2] = "" THEN Null
        ELSE verifyState(secret, [sig |-> split[1], bodyB64 |-> split[2]], t)

\* payloads the routes sign: session cookie, approval cookie, upstream state
\* (its ClientOAuthRequest came without state and resource)
StatePayloads ==
    <<[sessionId |-> "s1"],
      [approvedClientIds |-> <<"c1">>],
      [txId |-> "tx0",
       oauth |-> [client_id |-> "c1", redirect_uri |-> U1, scope |-> "mcp:read",
                  state |-> Undefined, resource |-> Undefined]]>>

StateSecrets == {OidcCookieSecret, "guess"}
StateTtls == {OIDC_STATE_TTL_SECONDS, SESSION_TTL_SECONDS}

\* what someone without the secret can do to the text of a token: change hex
\* digits of the signature, put another body (a later exp) in its place, cut
\* the token at its dot, append a dot and more text
Alterations == {"signature", "body", "cut", "appended"}
Altered(parts, how) ==
    CASE how = "signature" -> <<Append(parts[1], "flipped"), parts[2]>>
      [] how = "body" ->
            <<parts[1],
              base64urlEncode([base64urlDecode(parts[2]) EXCEPT
                                   !.exp = @ + APPROVAL_TTL_SECONDS])>>
      [] how = "cut" -> <<parts[1]>>
      [] OTHER -> parts \o <<"x">>

StateUnchanged ==
    UNCHANGED <<backend, cached, oidcCalls, now, ticks, faults, clients, dcr, regs, stores, lastOp, ops, http,
                authCodes, refreshTokens, locks, reqs, running, issued, rotated,
                codeUsed, minted, sessions, oidcTxs, authz, consent, cbs, visits, mcp>>

\* signState(secret, payload, ttlSeconds)
SignState(secret, payload, ttlSeconds) ==
    /\ signed = Null
    /\ signed' = [secret |-> secret, payload |-> payload, ttl |-> ttlSeconds, at |-> now,
                  text |-> StateText(signState(secret, payload, ttlSeconds, now)),
                  altered |-> "no", checked |-> FALSE, with |-> secret,
                  checkedAt |-> 0, result |-> Null]
    /\ StateUnchanged

\* the token comes back from the browser changed
AlterState(how) ==
    /\ signed # Null
    /\ signed.altered = "no"
    /\ ~signed.checked
    /\ signed' = [signed EXCEPT !.altered = how, !.text = Altered(@, how)]
    /\ StateUnchanged

\* verifyState(secret, state)
VerifyState(secret) ==
    /\ signed # Null
    /\ signed' = [signed EXCEPT !.checked = TRUE, !.with = secret, !.checkedAt = now,
                                !.result = verifyStateText(secret, signed.text, now)]
    /\ StateUnchanged

\* clock steps to just before, to, and past the expiry of a token
StateTickSteps == UNION {{ttl - 1, ttl, ttl + 1} : ttl \in StateTtls}

NextState ==
    \/ \E i \in DOMAIN StatePayloads, secret \in StateSecrets, ttl \in StateTtls :
            SignState(secret, StatePayloads[i], ttl)
    \/ \E how \in Alterations : AlterState(how)
    \/ \E secret \in StateSecrets : VerifyState(secret)
    \/ \E d \in StateTickSteps : Tick(d)

SpecState == InitStorage /\ [][NextState]_vars

\* ------------------------------------------------------- PKCE on its own
\* a logged-in user who has approved client c1: requests of c1 that differ in
\* code_challenge_method and code_challenge, and the exchange of the codes
\* they were given
PkceMethods == {"S256", "plain", "s256", "", Undefined, RepeatedParam}
PkceChallenges == {sha256Base64url("v1"), "v1"}
PkceVerifiers == {"v1", "v2"}

PkceQueries ==
    {[SeedOauthReq EXCEPT !.code_challenge_method = m, !.code_challenge = c] :
        m \in PkceMethods, c \in PkceChallenges}

PkceAuthorize ==
    /\ NoneInFlight
    /\ \E query \in PkceQueries : AuthorizeGet(query, SeedSessionCookie, SeedApprovalCookie)

PkceCodeBodies ==
    {[EmptyBody EXCEPT !.grant_type = "authorization_code", !.client_id = "c1", !.code = k,
                       !.redirect_uri = U1, !.code_verifier = v] :
        k \in DOMAIN authCodes, v \in PkceVerifiers}

PkceTokenRequest(r) ==
    /\ NoneInFlight
    /\ \E body \in PkceCodeBodies : TokenReceive(r, body)

NextPkce ==
    \/ PkceAuthorize
    \/ \E r \in Req : PkceTokenRequest(r)
    \/ \E r \in Req : AcConsume(r)
    \/ \E r \in Req : AcRedisGet(r)
    \/ \E r \in Req : AcRedisDel(r)
    \/ \E r \in Req : AcIssue(r)

SpecPkce == InitBrowser /\ [][NextPkce]_vars

\* --------------------------------------------- response headers on the wire
ACAO == "Access-Control-Allow-Origin"

\* the headers of a response when a handler starts: Express's own, nothing
\* that depends on the Origin of the request
FreshHeaders == Put(<< >>, "X-Powered-By", "Express")

\* variant: the discovery documents go out without CORS headers
setPublicCors_None(headers) == headers

\* setPublicCors(res)
setPublicCors(headers) ==
    Put(Put(Put(headers, ACAO, "*"),
            "Access-Control-Allow-Methods", "GET, OPTIONS"),
        "Access-Control-Allow-Headers", "Content-Type")

\* setNoCORS(res): res.removeHeader('Access-Control-Allow-Origin')
setNoCORS(headers) == Del(headers, ACAO)

\* setNoStore(res)
setNoStore(headers) == Put(Put(headers, "Cache-Control", "no-store"), "Pragma", "no-cache")

\* cfg.oauthServerUrl of the deployments looked at
OauthServerUrls == {OauthServerUrl, "http://localhost:3000", "https://mcp.example/base"}

WellKnownPaths ==
    {"/.well-known/oauth-protected-resource", "/.well-known/oauth-protected-resource/mcp",
     "/.well-known/oauth-authorization-server"}

\* the JSON document of a discovery endpoint
WellKnownDocument(path, oauthServerUrl) ==
    IF path = "/.well-known/oauth-authorization-server"
    THEN [issuer |-> oauthServerUrl,
          authorization_endpoint |-> oauthServerUrl \o "/oauth/authorize",
          token_endpoint |-> oauthServerUrl \o "/oauth/token",
          registration_endpoint |-> oauthServerUrl \o "/oauth/register",
          response_types_supported |-> <<"code">>,
          grant_types_supported |-> <<"authorization_code", "refresh_token">>,
          token_endpoint_auth_methods_supported |-> <<"none">>,
          scopes_supported |-> <<"mcp:read">>,
          code_challenge_methods_supported |-> <<"S256">>]
    ELSE [resource |-> IF path = "/.well-known/oauth-protected-resource" THEN oauthServerUrl
                       ELSE oauthServerUrl \o "/mcp",
          authorization_servers |-> <<oauthServerUrl>>,
          scopes_supported |-> <<"mcp:read">>,
          bearer_methods_supported |-> <<"header">>]

Origins == {Undefined, "https://app.example"}

HttpUnchanged ==
    UNCHANGED <<backend, cached, oidcCalls, now, ticks, faults, clients, dcr, regs, stores, lastOp, ops, signed,
                authCodes, refreshTokens, locks, reqs, running, issued, rotated,
                codeUsed, minted, sessions, oidcTxs, authz, consent, cbs, mcp>>

Seen(cfgUrl, method, path, origin, status, headers, body) ==
    /\ visits < MaxVisits
    /\ visits' = visits + 1
    /\ http' = [cfg |-> cfgUrl, method |-> method, path |-> path, origin |-> origin,
                status |-> status, headers |-> headers, body |-> body]
    /\ HttpUnchanged

\* router.options(path): setPublicCors, 204
WellKnownOptions(cfgUrl, path, origin) ==
    Seen(cfgUrl, "OPTIONS", path, origin, 204, setPublicCors(FreshHeaders), Null)

\* router.get(path): setPublicCors, res.json(document)
WellKnownGet(cfgUrl, path, origin) ==
    Seen(cfgUrl, "GET", path, origin, 200, setPublicCors(FreshHeaders),
         WellKnownDocument(path, cfgUrl))

\* the handlers of the OAuth endpoints and the statuses they answer with
OauthEndpoints ==
    {<<"POST", "/oauth/register">>, <<"GET", "/oauth/authorize">>, <<"POST", "/oauth/consent">>,
     <<"GET", "/oauth/callback">>, <<"POST", "/oauth/token">>}
OauthStatuses(path) ==
    CASE path = "/oauth/register" -> {201, 400, 500}
      [] path = "/oauth/authorize" -> {200, 302, 400}
      [] path = "/oauth/consent" -> {302, 400}
      [] path = "/oauth/callback" -> {200, 302, 400}
      [] OTHER -> {200, 400, 429, 500}

\* the header calls of an OAuth handler: setNoCORS(res) first, then setNoStore
\* on the token endpoint; no later call sets a CORS header
OauthHeaders(path) ==
    IF path = "/oauth/token" THEN setNoStore(setNoCORS(FreshHeaders))
    ELSE setNoCORS(FreshHeaders)

OauthResponse(cfgUrl, endpoint, origin, status) ==
    Seen(cfgUrl, endpoint[1], endpoint[2], origin, status, OauthHeaders(endpoint[2]), Null)

NextHttp ==
    \/ \E cfgUrl \in OauthServerUrls, path \in WellKnownPaths, origin \in Origins :
            WellKnownOptions(cfgUrl, path, origin)
    \/ \E cfgUrl \in OauthServerUrls, path \in WellKnownPaths, origin \in Origins :
            WellKnownGet(cfgUrl, path, origin)
    \/ \E cfgUrl \in OauthServerUrls, endpoint \in OauthEndpoints, origin \in Origins :
            \E status \in OauthStatuses(endpoint[2]) :
                OauthResponse(cfgUrl, endpoint, origin, status)

SpecHttp == InitStorage /\ [][NextHttp]_vars

\* ------------------------------------------- the token endpoint's own checks
\* bodies that differ in grant_type and client_id and are complete otherwise:
\* the stored code with its redirect URI and verifier, and a refresh token
GrantTypes == {"", "authorization_code", "refresh_token", "password", "client_credentials"}

TokenLevelBodies ==
    {[grant_type |-> g, client_id |-> c, code |-> "k1", redirect_uri |-> U1,
      code_verifier |-> "v1", refresh_token |-> t] :
        g \in GrantTypes, c \in {"", "c1", "cX"}, t \in issued \cup {BogusToken}}

TokenLevelRequest(r) == \E body \in TokenLevelBodies : TokenReceive(r, body)

NextToken ==
    \/ \E r \in Req : TokenLevelRequest(r)
    \/ \E r \in Req : AcConsume(r)
    \/ \E r \in Req : AcRedisGet(r)
    \/ \E r \in Req : AcRedisDel(r)
    \/ \E r \in Req : AcIssue(r)
    \/ \E r \in Req : RtAcquire(r)
    \/ \E r \in Req : RtGet(r)
    \/ \E r \in Req : RtRotate(r)
    \/ \E r \in Req : RtDelete(r)
    \/ \E r \in Req : RtRelease(r)

SpecToken == InitCode /\ [][NextToken]_vars

\* ------------------------------------------ a code and its refresh chain
\* the user claims a code may be bound to: { ...userinfo, ...idClaims } of the
\* callback, with the registered claims of the upstream ID token and with a
\* scope claim of the identity provider
BoundClaimSets ==
    {UserClaims,
     [sub |-> "user-1", email |-> "user@example.com", iss |-> "idp",
      aud |-> "upstream-client", exp |-> 1, iat |-> 0],
     [sub |-> "user-1", email |-> "user@example.com", scope |-> "openid profile email"]}

\* a code bound to one of the claim sets has been issued; nothing exchanged yet
InitChain ==
    /\ InitCommon
    /\ sessions = << >>
    /\ oidcTxs = << >>
    /\ authCodes \in {Put(<< >>, "k1", StoreEntry(backend, [SeedCode EXCEPT !.userClaims = uc], 0)) :
                        uc \in BoundClaimSets}
    /\ refreshTokens = << >>
    /\ issued = {}
    /\ codeUsed = {}
    /\ minted = << >>

\* the exchange of the code and the rotations of the refresh tokens it leads to
NextChain ==
    \/ \E r \in Req : CodeRequest(r)
    \/ \E r \in Req : AcConsume(r)
    \/ \E r \in Req : AcRedisGet(r)
    \/ \E r \in Req : AcRedisDel(r)
    \/ \E r \in Req : AcIssue(r)
    \/ \E r \in Req : RefreshRequest(r)
    \/ \E r \in Req : RtAcquire(r)
    \/ \E r \in Req : RtGet(r)
    \/ \E r \in Req : RtRotate(r)
    \/ \E r \in Req : RtDelete(r)
    \/ \E r \in Req : RtRelease(r)

SpecChain == InitChain /\ [][NextChain]_vars

\* ------------------------------------------------- the lock and the clock
\* the clock runs on, in steps of the lock TTL and of a second more, up to a
\* horizon of a few lock lifetimes
LockHorizon == (MaxTicks + 1) * (LOCK_TTL_SECONDS + 1)

LockTick(d) ==
    /\ now < LockHorizon
    /\ now' = now + d
    /\ UNCHANGED <<backend, cached, oidcCalls, ticks, faults, clients, dcr, regs, stores, lastOp, ops, signed, http,
                   authCodes, refreshTokens, locks,
                   reqs, running, issued, rotated, codeUsed, minted,
                   sessions, oidcTxs, authz, consent, cbs, visits, mcp>>

\* acquireLock and releaseLock on the one key, on both backends
LockCalls(t, n) ==
    {i \in DOMAIN StorageCalls(t, n) :
        StorageCalls(t, n)[i].name \in {"acquireLock", "releaseLock"}}

NextLock ==
    \/ \E i \in LockCalls(now, ops + 1) : Storage(StorageCalls(now, ops + 1)[i])
    \/ \E d \in {LOCK_TTL_SECONDS, LOCK_TTL_SECONDS + 1} : LockTick(d)

\* time passes whatever the callers do
SpecLock ==
    /\ InitStorage
    /\ [][NextLock]_vars
    /\ WF_vars(\E d \in {LOCK_TTL_SECONDS, LOCK_TTL_SECONDS + 1} : LockTick(d))

\* ------------------------------------------- consent forms on their own
\* what a form may carry as consent_state: nothing, a forged blob, the blob of
\* a consent page, and the other values the server signs with the same
\* secret: the state of the upstream login, the session cookie, the approval
\* cookie (a sequence: the payloads differ in kind)
ConsentFormStates ==
    <<NoBlob, ForgedState, SeedConsentState, SeedOidcState, SeedSessionCookie,
      SeedApprovalCookie>>

ConsentForm ==
    \E decision \in Decisions, i \in DOMAIN ConsentFormStates,
       sc \in {NoCookie, SeedSessionCookie} :
        ConsentPost(decision, ConsentFormStates[i], sc, NoCookie)

NextConsent ==
    \/ ConsentForm
    \/ \E d \in BrowserTickSteps : Tick(d)

SpecConsent == InitBrowser /\ [][NextConsent]_vars

\* ---------------------------------------------- the upstream client cache
NextOidc ==
    \/ \E c \in OidcCall, issuer \in OidcIssuers : GetOidcClient(c, issuer)
    \/ \E c \in OidcCall : DiscoveryResolves(c)
    \/ \E c \in OidcCall : DiscoveryRejects(c)

SpecOidc == InitCode /\ [][NextOidc]_vars

\* ================================================================== claims
IsRefresh(r) == reqs[r].grant = "refresh_token"
IsCodeGrant(r) == reqs[r].grant = "authorization_code"
Responded(r) == reqs[r].status # 0
Finished(r) == reqs[r].pc = "done"
KeyOf(r) == LockKey(hashRefreshToken(JwtSigningSecret, reqs[r].refreshToken))

\* C1: of the concurrent refresh_token requests that present the same refresh
\* token (none of them started after a 200 for that token), at most one is
\* answered 200 -- also when the lock TTL runs out during a rotation.
C1_AtMostOneConcurrentRotation ==
    \A r1, r2 \in Req :
        (/\ r1 # r2
         /\ IsRefresh(r1) /\ IsRefresh(r2)
         /\ reqs[r1].refreshToken = reqs[r2].refreshToken
         /\ ~reqs[r1].later /\ ~reqs[r2].later
         /\ reqs[r1].status = 200)
        => reqs[r2].status # 200

\* requests arrive in the order of their numbers
FirstToArrive(r) == \A o \in 1..(r - 1) : reqs[o].refreshToken # reqs[r].refreshToken

\* r took the rotation lock and no other request presenting r's token did
OnlyToLock(r) ==
    /\ reqs[r].lockToken # NoToken
    /\ \A o \in Req \ {r} :
           reqs[o].refreshToken = reqs[r].refreshToken => reqs[o].lockToken = NoToken

\* tokens handed out by a rotation that answered 200
RotationIssued == {reqs[o].newToken : o \in {x \in Req : IsRefresh(x) /\ reqs[x].status = 200}}

C2_WitnessSuccessor ==
    \E r \in Req : IsRefresh(r) /\ reqs[r].refreshToken \in RotationIssued /\ reqs[r].status = 200

\* ---- refresh chains
Chains == {minted[h].chain : h \in DOMAIN minted}

\* the stored, unexpired records of chain c
ValidRecords(c) ==
    {h \in DOMAIN refreshTokens :
        /\ h \in DOMAIN minted /\ minted[h].chain = c
        /\ getRefreshTokenByHash(backend, refreshTokens, h, now) # Null}

\* the chain still has a token that has not reached its expiry time
ChainLive(c) == \E h \in DOMAIN minted : minted[h].chain = c /\ now < minted[h].expiresAt

\* C5: in every reachable state, the intermediate states of a rotation
\* included, each refresh chain has exactly one stored, unexpired record.
C5_ExactlyOneRecordPerChain ==
    \A c \in Chains : ChainLive(c) => Cardinality(ValidRecords(c)) = 1

\* ---- the lock
\* r took the lock and has not yet called releaseLock
Holder(r) == reqs[r].lockToken # NoToken /\ "release" \notin reqs[r].ops

\* r's lock has not reached its TTL
WithinTTL(r) == now < reqs[r].lockAt + LOCK_TTL_SECONDS

\* C6: on either backend, two acquireLock calls on one key do not both return
\* a token unless the first holder released or its TTL ran out in between:
\* a key never has two holders that are both unreleased and within their TTL.
C6_LockMutualExclusion ==
    \A r1, r2 \in Req :
        (r1 # r2 /\ KeyOf(r1) = KeyOf(r2) /\ Holder(r1) /\ Holder(r2))
        => ~(WithinTTL(r1) /\ WithinTTL(r2))

\* two requests took the lock on one key, the second after the first's TTL
C6_Witness ==
    \E r1, r2 \in Req :
        /\ r1 # r2 /\ KeyOf(r1) = KeyOf(r2)
        /\ Holder(r1) /\ Holder(r2)
        /\ ~WithinTTL(r1) /\ WithinTTL(r2)

\* C7: releaseLock(key, token) removes the stored lock only when it carries
\* that token; a release by a former holder, after its TTL ran out and the
\* key was taken again, leaves the new holder's lock in place and blocking.
C7_ReleaseOnlyOwnLock ==
    [][\A r \in Req :
          (reqs[r].pc = "release" /\ reqs'[r].pc = "done") =>
              LET key == KeyOf(r)
              IN  IF key \in DOMAIN locks /\ locks[key].token = reqs[r].lockToken
                  THEN LockHeld(backend, locks, key, now) => key \notin DOMAIN locks'
                  ELSE /\ locks' = locks
                       /\ LockHeld(backend, locks, key, now) => LockHeld(backend, locks', key, now')
      ]_vars

\* a former holder has called releaseLock while another request holds the key
C7_Witness ==
    \E r1, r2 \in Req :
        /\ r1 # r2 /\ KeyOf(r1) = KeyOf(r2)
        /\ Finished(r1) /\ reqs[r1].staleRelease
        /\ Holder(r2) /\ WithinTTL(r2)
        /\ LockHeld(backend, locks, KeyOf(r2), now)
        /\ locks[KeyOf(r2)].token = reqs[r2].lockToken

Refused(r) ==
    /\ IsRefresh(r)
    /\ reqs[r].clientId \in DOMAIN clients /\ reqs[r].refreshToken # NoToken
    /\ reqs[r].pc \notin {"idle", "acquire"}
    /\ reqs[r].lockToken = NoToken

\* C9: when acquireLock returns null the request is answered 429 slow_down
\* and makes no refresh-token read, write or delete and no releaseLock call.
C9_SlowDownTouchesNothing ==
    \A r \in Req :
        Refused(r) => /\ Finished(r)
                      /\ reqs[r].status = 429 /\ reqs[r].error = "slow_down"
                      /\ reqs[r].ops = {}

C9_Witness ==
    \E r \in Req : Refused(r) /\ reqs[r].status = 429

\* ---- authorization codes
\* C3: of the concurrent authorization_code requests presenting the same valid
\* code, at most one is answered 200, on the in-memory and the Redis backend.
C3_AtMostOneExchange ==
    \A r1, r2 \in Req :
        (/\ r1 # r2
         /\ IsCodeGrant(r1) /\ IsCodeGrant(r2)
         /\ reqs[r1].code = reqs[r2].code
         /\ reqs[r1].status = 200)
        => reqs[r2].status # 200

\* C4 (as stated): after a 200 for a code, every later exchange presenting it
\* is answered 400 invalid_grant whatever client_id, redirect_uri and
\* code_verifier it carries (each of the three present in the request).
C4_AsStated ==
    \A r \in Req :
        (IsCodeGrant(r) /\ reqs[r].later /\ Responded(r) /\ reqs[r].codeVerifier # "")
        => (reqs[r].status = 400 /\ reqs[r].error = "invalid_grant")

\* C4 (amended): after a 200 for a code, every later exchange presenting it is
\* answered 400 and never 200; the error is invalid_grant when the request
\* names a registered client and carries a code_verifier, invalid_client when
\* the client_id is unknown, invalid_request when the code_verifier is empty.
C4_CodeIsSingleUse ==
    \A r \in Req :
        (IsCodeGrant(r) /\ reqs[r].later /\ Responded(r)) =>
            /\ reqs[r].status = 400
            /\ reqs[r].error =
                 IF reqs[r].clientId \notin DOMAIN clients THEN "invalid_client"
                 ELSE IF reqs[r].codeVerifier = "" THEN "invalid_request"
                 ELSE "invalid_grant"

\* a later exchange with the parameters the code was bound to has been refused
C4_Witness ==
    \E r \in Req :
        /\ IsCodeGrant(r) /\ reqs[r].later /\ Finished(r)
        /\ reqs[r].clientId = "c1" /\ reqs[r].redirectUri = U1 /\ reqs[r].codeVerifier = "v1"
        /\ reqs[r].status = 400 /\ reqs[r].error = "invalid_grant"

\* ---- the authorization endpoint
\* the last GET /oauth/authorize was answered with a 302 to its redirect_uri
RedirectedToClient ==
    /\ authz # Null
    /\ authz.resp.kind = "redirect"
    /\ authz.resp.location = authz.req.redirect_uri

\* client_id names a registered client and redirect_uri is registered for it
TrustedRedirectUri(query) ==
    /\ query.client_id \in DOMAIN clients
    /\ Includes(clients[query.client_id].redirectUris, query.redirect_uri)

\* C10: GET /oauth/authorize redirects the browser to the request's
\* redirect_uri only for a registered client and one of its registered
\* redirect URIs; otherwise it answers with an error page, not a redirect.
C10_RedirectOnlyToRegisteredUri ==
    /\ RedirectedToClient => TrustedRedirectUri(authz.req)
    /\ (authz # Null /\ ~TrustedRedirectUri(authz.req)) =>
           (authz.resp.kind = "page" /\ authz.resp.status >= 400)

\* ---- the bindings of an authorization code
\* r carries every required field, a registered client and one of its URIs
WellFormedExchange(r) ==
    /\ IsCodeGrant(r)
    /\ reqs[r].clientId \in DOMAIN clients
    /\ reqs[r].code # "" /\ reqs[r].redirectUri # "" /\ reqs[r].codeVerifier # ""
    /\ Includes(clients[reqs[r].clientId].redirectUris, reqs[r].redirectUri)

\* r presents the client, redirect URI and verifier the code k1 was bound to
MatchesBinding(r) ==
    /\ reqs[r].code = SeedCode.code
    /\ reqs[r].clientId = SeedCode.clientId
    /\ reqs[r].redirectUri = SeedCode.redirectUri
    /\ sha256Base64url(reqs[r].codeVerifier) = SeedCode.codeChallenge

\* C11: an authorization_code exchange is answered 200 only if the stored code
\* was found unexpired and the request's client_id, redirect_uri and
\* code_verifier match what the code was bound to; a well-formed request that
\* fails one of these is answered 400 invalid_grant and stores no refresh
\* token record.
C11_ExchangeOnlyWithMatchingBinding ==
    \A r \in Req :
        IsCodeGrant(r) =>
            /\ reqs[r].pc = "issue" =>
                  /\ reqs[r].record # Null
                  /\ ~ExpiredRecord(reqs[r].record, now)
            /\ (reqs[r].pc = "issue" \/ reqs[r].status = 200) => MatchesBinding(r)
            /\ (WellFormedExchange(r) /\ Responded(r) /\ reqs[r].status # 200) =>
                  /\ reqs[r].status = 400 /\ reqs[r].error = "invalid_grant"
                  /\ reqs[r].newToken = NoToken
                  /\ hashRefreshToken(JwtSigningSecret, randomToken(r)) \notin DOMAIN refreshTokens

\* the first exchange of the code carried the wrong code_verifier and was refused
C11_Witness ==
    \E r \in Req :
        /\ WellFormedExchange(r) /\ ~reqs[r].later /\ Finished(r)
        /\ reqs[r].clientId = "c1" /\ reqs[r].redirectUri = U1 /\ reqs[r].codeVerifier = "v2"
        /\ reqs[r].status = 400 /\ reqs[r].error = "invalid_grant"
        /\ refreshTokens = << >>

\* ---- the browser flow
\* the step handled a GET /oauth/authorize / a POST /oauth/consent
AuthorizeHandled == visits' = visits + 1 /\ authz' # Null
ConsentHandled == visits' = visits + 1 /\ consent' # Null

\* the step ran callback i from authorizationCodeGrant to its response
GrantHandled(i) == cbs[i].pc = "grant" /\ cbs'[i].pc = "done"

\* the codes the step stored
StoredCodes == {k \in DOMAIN authCodes' : k \notin DOMAIN authCodes}

\* the consent_state of the form verifies and carries a request of client c
ValidConsentStateFor(form, c) ==
    /\ form.consent_state # NoBlob
    /\ verifyState(OidcCookieSecret, form.consent_state, now) # Null
    /\ verifyState(OidcCookieSecret, form.consent_state, now).payload.oauth.client_id = c

\* the session cookie verifies and names a session that is stored and not expired
LiveSession(cookie) == getSessionId(backend, sessions, cookie, now) # Null

\* C12: a code bound to client C is stored only by a request whose verified,
\* unexpired approved-clients cookie lists C, or by a POST /oauth/consent with
\* decision 'approve' and a valid consent_state for C; a request of a browser
\* with a live session and no approval for C is answered with the consent page
\* and stores no code.
C12_CodeOnlyWithApproval ==
    [][/\ \A k \in StoredCodes :
             LET c == authCodes'[k].v.clientId
             IN  \/ /\ AuthorizeHandled
                    /\ c \in getApprovedClientIds(authz'.approval, now)
                 \/ /\ ConsentHandled
                    /\ consent'.req.decision = "approve"
                    /\ ValidConsentStateFor(consent'.req, c)
                 \/ \E i \in Cb :
                        /\ GrantHandled(i)
                        /\ c \in getApprovedClientIds(cbs[i].approval, now)
       /\ (/\ AuthorizeHandled
           /\ normalizeOauthReq(authz'.req) # Null
           /\ validateClientRequest(clients, authz'.req).ok
           /\ LiveSession(authz'.session)
           /\ authz'.req.client_id \notin getApprovedClientIds(authz'.approval, now))
          => (authz'.resp.kind = "consent" /\ StoredCodes = {})
       /\ \A i \in Cb :
             (/\ GrantHandled(i)
              /\ cbs'[i].sessionId # Undefined
              /\ cbs[i].oauth.client_id \notin getApprovedClientIds(cbs[i].approval, now))
             => (cbs'[i].resp.kind = "consent" /\ StoredCodes = {})
      ]_vars

\* POST /oauth/consent with decision 'approve' stored a code for client c1
C12_Witness ==
    /\ consent # Null
    /\ consent.req.decision = "approve"
    /\ consent.resp.code # Undefined
    /\ consent.resp.code \in DOMAIN authCodes
    /\ authCodes[consent.resp.code].v.clientId = "c1"
    /\ consent.setCookie # Null

\* the request carries no session cookie, or one with a bad signature, an
\* expired one, or one naming a session that is missing or expired
WithoutSession(cookie) ==
    \/ cookie = NoCookie
    \/ cookie.sig # hmacSha256Hex(OidcCookieSecret, cookie.bodyB64)
    \/ base64urlDecode(cookie.bodyB64).exp < now
    \/ getUserSession(backend, sessions,
                      base64urlDecode(cookie.bodyB64).payload.sessionId, now) = Null

PassesValidation(query) ==
    /\ normalizeOauthReq(query) # Null
    /\ validateClientRequest(clients, normalizeOauthReq(query)).ok

StoredOidcTxs == {t \in DOMAIN oidcTxs' : t \notin DOMAIN oidcTxs}

PassedTxCheck(i) == cbs[i].passed

\* C14: for each upstream login transaction id, at most one GET /oauth/callback
\* proceeds past the transaction check, on both backends; any other callback
\* presenting the same transaction id is answered 400 and creates no session.
C14_AtMostOneCallbackPerTx ==
    \A i, j \in Cb :
        (/\ i # j
         /\ cbs[i].txId # Undefined
         /\ cbs[i].txId = cbs[j].txId
         /\ PassedTxCheck(i))
        => /\ ~PassedTxCheck(j)
           /\ cbs[j].pc = "done" =>
                 /\ cbs[j].resp.status = 400
                 /\ cbs[j].sessionId = Undefined

\* userClaims holds a non-null value for every required claim
HasRequiredClaims(userClaims) ==
    \A claim \in oidcRequiredClaims : Field(userClaims, claim) \notin {Undefined, JsonNull}

\* C15: with the required-claim configuration fixed and records created only
\* through the HTTP endpoints, every stored user session, authorization code
\* and refresh-token record holds a non-null value for every required claim.
C15_StoredClaimsComplete ==
    /\ \A s \in DOMAIN sessions : HasRequiredClaims(sessions[s].v.userClaims)
    /\ \A k \in DOMAIN authCodes : HasRequiredClaims(authCodes[k].v.userClaims)
    /\ \A h \in DOMAIN refreshTokens : HasRequiredClaims(refreshTokens[h].v.userClaims)

\* a login whose email came from the userinfo endpoint has reached a session,
\* a code exchange and a rotated refresh token
C15_Witness ==
    /\ \E s \in DOMAIN sessions : sessions[s].v.userClaims.email = "info@example.com"
    /\ \E h \in DOMAIN refreshTokens : refreshTokens[h].v.userClaims.email = "info@example.com"
    /\ \E r \in Req : IsRefresh(r) /\ reqs[r].status = 200

\* C16: a callback whose merged claims lack a required claim is answered 403,
\* creates no session, sets no session cookie and issues no authorization code.
C16_MissingClaimRefused ==
    [][\A i \in Cb :
          (/\ GrantHandled(i)
           /\ cbs'[i].claims # Null
           /\ ~HasRequiredClaims(cbs'[i].claims))
          => /\ cbs'[i].resp.status = 403
             /\ cbs'[i].resp.kind = "page"
             /\ sessions' = sessions
             /\ cbs'[i].setCookie = Null
             /\ cbs'[i].sessionId = Undefined
             /\ authCodes' = authCodes
      ]_vars

\* the provider answered without an email claim: 403, and only the seeded
\* session is stored
C16_Witness ==
    \E i \in Cb :
        /\ cbs[i].pc = "done"
        /\ cbs[i].passed
        /\ cbs[i].claims # Null
        /\ "email" \notin DOMAIN cbs[i].claims
        /\ cbs[i].resp.status = 403
        /\ DOMAIN sessions = {"s1"}
        /\ authCodes = << >>

\* C17: a callback whose upstream code exchange fails is answered with an
\* error, creates no session, sets no session cookie and issues no
\* authorization code; the transaction it consumed is not restored.
C17_UpstreamFailureLeavesNothing ==
    [][\A i \in Cb :
          (/\ GrantHandled(i)
           /\ cbs'[i].claims = Null)
          => /\ cbs'[i].resp.status = 400
             /\ cbs'[i].resp.kind = "page"
             /\ sessions' = sessions
             /\ cbs'[i].setCookie = Null
             /\ cbs'[i].sessionId = Undefined
             /\ authCodes' = authCodes
             /\ cbs[i].txId \notin DOMAIN oidcTxs'
      ]_vars

\* authorizationCodeGrant threw for the callback of tx0: 400, tx0 is gone
C17_Witness ==
    \E i \in Cb :
        /\ cbs[i].pc = "done"
        /\ cbs[i].passed
        /\ cbs[i].txId = "tx0"
        /\ cbs[i].resp = SendPage(400, "OIDC callback failed")
        /\ "tx0" \notin DOMAIN oidcTxs
        /\ DOMAIN sessions = {"s1"}
        /\ authCodes = << >>

ValidConsentState(form) ==
    /\ form.consent_state # NoBlob
    /\ verifyState(OidcCookieSecret, form.consent_state, now) # Null

\* the authorization request a consent_state carries
ConsentRequest(form) ==
    ReadOauthReq(verifyState(OidcCookieSecret, form.consent_state, now).payload.oauth)

\* the form was answered with a redirect to the client carrying this error,
\* no code was stored and no cookie was set
RefusedWith(error) ==
    /\ consent'.resp.status = 302
    /\ consent'.resp.location = ConsentRequest(consent'.req).redirect_uri
    /\ consent'.resp.error = error
    /\ consent'.resp.code = Undefined
    /\ StoredCodes = {}
    /\ authCodes' = authCodes
    /\ consent'.setCookie = Null

\* C18 as stated: every POST /oauth/consent with a valid consent_state and a
\* decision other than 'approve' is redirected to the client's redirect_uri
\* with error=access_denied, stores no code and sets no approval cookie.
C18_AsStated ==
    [][(/\ ConsentHandled
        /\ ValidConsentState(consent'.req)
        /\ consent'.req.decision # "approve")
       => RefusedWith("access_denied")
      ]_vars

\* C18, amended: the same for the forms that also carry the cookie of a live
\* session; without one the redirect carries error=login_required. Either way
\* no code is stored and no approval cookie is set.
C18_DenyRedirectsAccessDenied ==
    [][(/\ ConsentHandled
        /\ ValidConsentState(consent'.req)
        /\ consent'.req.decision # "approve")
       => IF LiveSession(consent'.req.session)
          THEN RefusedWith("access_denied")
          ELSE RefusedWith("login_required")
      ]_vars

\* the logged-in user denied the request of client c1
C18_Witness ==
    /\ consent # Null
    /\ consent.req.decision = "deny"
    /\ consent.req.consent_state = SeedConsentState
    /\ consent.req.session = SeedSessionCookie
    /\ consent.resp = redirectWithError(SeedOauthReq, "access_denied")
    /\ consent.setCookie = Null
    /\ authCodes = << >>

\* the state parameter of the authorization request a signed blob was made from
BlobState(blob) == Field(base64urlDecode(blob.bodyB64).payload.oauth, "state")

\* a 302 to the redirect_uri of the request, not to the identity provider
ToClient(resp, redirectUri) == resp.kind = "redirect" /\ resp.location = redirectUri

BearerTokenVerifies(r) ==
    /\ mcp[r].header # NoHeader
    /\ ToLowerCase(mcp[r].header.scheme) = "bearer"
    /\ mcp[r].header.token # NoJwt
    /\ mcp[r].header.token.sig = hmacSha256Hex(JwtSigningSecret, mcp[r].header.token.payload)
    /\ mcp[r].header.token.payload.iss = OauthServerUrl
    /\ mcp[r].header.token.payload.aud = OauthServerUrl

\* C20: the bearer middleware invokes the downstream handler only for a
\* request with an Authorization: Bearer header whose token verifies
\* (signature, issuer, audience) and whose verified claims hold a non-null
\* value for every required claim; the verified claims are then attached to
\* the request and are the claims the per-request context shows during that
\* handler.
C20_HandlerOnlyWithVerifiedClaims ==
    \A r \in Req :
        /\ mcp[r].invoked =>
              /\ BearerTokenVerifies(r)
              /\ HasRequiredClaims(mcp[r].header.token.payload)
              /\ mcp[r].mcpAuth = [claims |-> mcp[r].header.token.payload]
              /\ getAuthClaims(mcp, r) = mcp[r].header.token.payload
        /\ mcp[r].status = 200 =>
              /\ mcp[r].invoked
              /\ mcp[r].seenOnReq = mcp[r].header.token.payload
              /\ mcp[r].seenInContext = mcp[r].header.token.payload
        /\ (mcp[r].pc = "done" /\ ~mcp[r].invoked) => mcp[r].status \in {401, 403}

\* two users' requests were in their handlers together; each saw its own claims
C20_Witness ==
    \E r1, r2 \in Req :
        /\ r1 # r2
        /\ mcp[r1].status = 200
        /\ mcp[r1].seenInContext.sub = "user-1"
        /\ mcp[r1].seenInContext.email = "user@example.com"
        /\ mcp[r2].pc = "done"
        /\ mcp[r2].invoked
        /\ mcp[r2].seenInContext.sub = "user-2"

\* the challenge that names the protected-resource metadata of the MCP
\* endpoint, with the given further parameters
ChallengeWith(extras) ==
    [scheme |-> "Bearer",
     params |-> [resource_metadata |->
                     "https://mcp.example/.well-known/oauth-protected-resource/mcp"] @@ extras]

\* request r carried a Bearer header
BearerHeader(r) ==
    mcp[r].header # NoHeader /\ ToLowerCase(mcp[r].header.scheme) = "bearer"

\* C21: a request the bearer middleware has answered without a Bearer
\* Authorization header (none, or another scheme) got 401 with a
\* WWW-Authenticate challenge that names the protected-resource metadata URL
\* and has no error parameter; one whose Bearer token fails verification
\* (signature, issuer, audience, expiry, or not a JWT) got 401 with
\* error="invalid_token" in that challenge; one whose token verifies and
\* lacks a required claim got 403; none of them reached the handler.
C21_RejectionByCause ==
    \A r \in Req :
        mcp[r].pc = "done" =>
            /\ ~BearerHeader(r) =>
                  /\ mcp[r].status = 401
                  /\ mcp[r].challenge = ChallengeWith(<< >>)
                  /\ ~mcp[r].invoked
            /\ (BearerHeader(r)
                  /\ (~BearerTokenVerifies(r) \/ mcp[r].header.token.payload.exp <= now)) =>
                  /\ mcp[r].status = 401
                  /\ mcp[r].challenge = ChallengeWith([error |-> "invalid_token"])
                  /\ ~mcp[r].invoked
            /\ (BearerTokenVerifies(r) /\ mcp[r].header.token.payload.exp > now
                  /\ ~HasRequiredClaims(mcp[r].header.token.payload)) =>
                  /\ mcp[r].status = 403
                  /\ ~mcp[r].invoked

\* one request was refused for a token of another audience, another for a
\* token without the email claim
C21_Witness ==
    \E r1, r2 \in Req :
        /\ mcp[r1].pc = "done"
        /\ BearerHeader(r1)
        /\ mcp[r1].header.token # NoJwt
        /\ mcp[r1].header.token.payload.aud # OauthServerUrl
        /\ mcp[r1].status = 401
        /\ mcp[r2].pc = "done"
        /\ BearerTokenVerifies(r2)
        /\ mcp[r2].status = 403

\* ---- client registration
\* a step in which POST /oauth/register ran
RegisterHandled == regs' = regs + 1

\* the URIs in use that are https URLs, http URLs on localhost, 127.0.0.1 or
\* [::1] (in any spelling of scheme and host), or cursor: URLs
AcceptableUris ==
    {"https://app.example/cb", "http://localhost/callback", "HTTP://LOCALHOST:3000/cb",
     "http://127.0.0.1:8765/cb", "http://[::1]/cb",
     "cursor://anysphere.cursor-retrieval/oauth/callback"}

\* the value is a non-empty JSON array
NonEmptyList(v) == IsArray(v) /\ Len(v) > 0

Given(v) == ~(v = Undefined \/ v = JsonNull)

\* the member is given and is not a list that holds x
Lacks(v, x) == Given(v) /\ (IsArray(v) => ~Includes(v, x))

\* the body breaks one of the metadata rules
BreaksMetadataRule(body) ==
    \/ ~NonEmptyList(body.redirect_uris)
    \/ (Given(body.token_endpoint_auth_method) /\ body.token_endpoint_auth_method # "none")
    \/ Lacks(body.grant_types, "authorization_code")
    \/ Lacks(body.response_types, "code")

\* the body passes the redirect-URI rule
PassesUriRule(body) ==
    /\ NonEmptyList(body.redirect_uris)
    /\ \A i \in DOMAIN body.redirect_uris : body.redirect_uris[i] \in AcceptableUris

\* C23: a POST /oauth/register whose redirect_uris is empty or missing, whose
\* token_endpoint_auth_method is other than 'none', whose grant_types lacks
\* authorization_code or whose response_types lacks code is answered 400
\* invalid_client_metadata and leaves the client store unchanged; one that
\* passes every rule is answered 201 with a client_id that was not in the
\* store, and the store gains exactly that client, with redirectUris equal to
\* the submitted list.
C23_MetadataRules ==
    [][RegisterHandled =>
          LET body == dcr'.req
              resp == dcr'.resp
          IN  /\ BreaksMetadataRule(body) =>
                    /\ resp.status = 400
                    /\ resp.error = "invalid_client_metadata"
                    /\ clients' = clients
              /\ (~BreaksMetadataRule(body) /\ PassesUriRule(body)) =>
                    /\ resp.status = 201
                    /\ resp.client_id \notin DOMAIN clients
                    /\ DOMAIN clients' = DOMAIN clients \cup {resp.client_id}
                    /\ \A c \in DOMAIN clients : clients'[c] = clients[c]
                    /\ clients'[resp.client_id].redirectUris = body.redirect_uris]_vars

\* C24: no step of any endpoint changes or deletes a client record that is in
\* the store: every client keeps its metadata, redirectUris included.
C24_ClientsImmutable ==
    [][\A c \in DOMAIN clients :
          /\ c \in DOMAIN clients'
          /\ clients'[c] = clients[c]]_vars

\* two clients were registered, the first of them is as it was stored, and a
\* callback and a token rotation have been answered
C24_Witness ==
    /\ {"dcr-1", "dcr-2"} \subseteq DOMAIN clients
    /\ clients["dcr-1"].redirectUris = <<"https://app.example/cb">>
    /\ \E r \in Req : reqs[r].status = 200 /\ reqs[r].grant = "refresh_token"
    /\ \E i \in Cb : cbs[i].pc = "done"

StorageBackends == {"memory", "redis"}
StorageReads == {"getRefreshTokenByHash", "getUserSession", "consumeAuthCode", "consumeOidcTx"}
StorageHandled == ops' = ops + 1

\* the record a backend holds under the key of a call, whatever its age
HeldRecord(be, name, key) ==
    IF key \in DOMAIN stores[be][MapOf(name)] THEN stores[be][MapOf(name)][key].v ELSE Null

\* a token request of client c1 that presents the stored code and its verifier
TokenRequestOfC1 ==
    [IdleReq EXCEPT !.clientId = "c1", !.redirectUri = U1, !.codeVerifier = "v1"]

\* what the handler that made the read does with its result
AnsweredAsAbsent(be, name, result) ==
    CASE name = "consumeAuthCode" ->
            /\ AfterConsume(TokenRequestOfC1, result).status = 400
            /\ AfterConsume(TokenRequestOfC1, result).error = "invalid_grant"
      [] name = "getRefreshTokenByHash" ->
            /\ AfterGet(TokenRequestOfC1, result).status = 400
            /\ AfterGet(TokenRequestOfC1, result).error = "invalid_grant"
      [] name = "getUserSession" ->
            getSessionId(be, stores[be].sessions,
                         signState(OidcCookieSecret, [sessionId |-> "s1"],
                                   SESSION_TTL_SECONDS, now), now) = Null
      [] OTHER -> AfterConsumeOidcTx(IdleCb, result).resp.status = 400

\* C25: a read (getRefreshTokenByHash, getUserSession, consumeAuthCode,
\* consumeOidcTx) made at a time later than the expiresAt of the record held
\* under the key returns null on either backend, so that the token endpoint
\* answers 400 invalid_grant for the expired code or refresh token and
\* getSessionId finds no session, even for a cookie that is still valid.
C25_ExpiredReadsAsAbsent ==
    [][(StorageHandled /\ lastOp'.name \in StorageReads) =>
        \A be \in StorageBackends :
            LET held == HeldRecord(be, lastOp'.name, lastOp'.key)
            IN  (held # Null /\ now > held.expiresAt) =>
                    /\ lastOp'[be] = Null
                    /\ AnsweredAsAbsent(be, lastOp'.name, lastOp'[be])]_vars

\* a read of each kind has found nothing although the memory backend still
\* holds the record: only the expiry check hid it
C25_Witness ==
    /\ lastOp # Null
    /\ lastOp.name = "getRefreshTokenByHash"
    /\ lastOp.memory = Null
    /\ lastOp.redis = Null
    /\ lastOp.key \in DOMAIN stores["memory"].refreshTokens
    /\ now > stores["memory"].refreshTokens[lastOp.key].v.expiresAt

\* what a caller can tell apart: the record as data (a member that is
\* undefined and a member that is absent read the same), or null; for
\* acquireLock whether a token came back
SameResult(op) ==
    IF op.name = "acquireLock" THEN (op.memory = Null) <=> (op.redis = Null)
    ELSE IF op.memory = Null \/ op.redis = Null THEN op.memory = op.redis
    ELSE JsonRoundTrip(op.memory) = JsonRoundTrip(op.redis)

\* C26 as stated: after every sequence of calls made one after the other with
\* the same arguments at the same times, the last call has returned the same
\* on MemoryOAuthStorage and on RedisOAuthStorage.
C26_SameResults == lastOp # Null => SameResult(lastOp)

\* C26, amended: the same, for the sequences in which no acquireLock was
\* called at the very instant a lock on its key runs out.
C26_SameResultsOffExpiry == (lastOp # Null /\ ~lastOp.onExpiry) => SameResult(lastOp)

\* time has passed, a lock is held on both backends, and a read has returned
\* the stored session from both
C26_Witness ==
    /\ lastOp # Null
    /\ ~lastOp.onExpiry
    /\ lastOp.name = "getUserSession"
    /\ lastOp.memory # Null
    /\ lastOp.redis # Null
    /\ now > 0
    /\ \A be \in StorageBackends : LockKey("h") \in DOMAIN stores[be].locks

\* the decoded payload reads the same as the one that was signed: a member
\* that was undefined is absent after JSON.stringify and JSON.parse
SamePayload(decoded, payload) == decoded = JsonStringifyPayload(payload)

\* C27 as stated: verifyState with the signing secret on the token as signed,
\* before its ttl has elapsed, returns the payload; verifyState raises when
\* the signature or the body of the token was altered, when the token was
\* signed with another secret, and when it is checked after its expiry time.
C27_StateRoundTrip ==
    (signed # Null /\ signed.checked) =>
        /\ (/\ signed.altered = "no"
            /\ signed.with = signed.secret
            /\ signed.checkedAt < signed.at + signed.ttl)
                => (/\ signed.result # Null
                    /\ SamePayload(signed.result.payload, signed.payload))
        /\ (\/ signed.altered # "no"
            \/ signed.with # signed.secret
            \/ signed.checkedAt > signed.at + signed.ttl)
                => signed.result = Null

\* the step ran the checks of request r that follow consumeAuthCode, on a
\* record that was found
ConsumedBy(r) ==
    IF reqs[r].pc = "consume_del" THEN reqs[r].record
    ELSE MemoryConsumeResult(authCodes, reqs[r].code, now)
PkceChecked(r) ==
    /\ \/ backend = "memory" /\ reqs[r].pc = "consume"
       \/ reqs[r].pc = "consume_del"
    /\ reqs'[r].pc \in {"issue", "done"}
    /\ ConsumedBy(r) # Null

\* verifyPkceS256(v, c) is true exactly when c = base64url(sha256(v)): for the
\* verifiers and challenges of the runs, and in the exchange of a code by the
\* client and redirect URI it is bound to
PkceExact ==
    /\ \A v \in PkceVerifiers, c \in PkceChallenges :
            verifyPkceS256(v, c) <=> (c = sha256Base64url(v))
    /\ \A r \in Req :
            PkceChecked(r) =>
                ((reqs'[r].pc = "issue")
                    <=> (ConsumedBy(r).codeChallenge = sha256Base64url(reqs[r].codeVerifier)))

\* GET /oauth/authorize has refused the request and stored no code
MethodRefused ==
    /\ authz'.resp.status = 302
    /\ authz'.resp.error = "invalid_request"
    /\ authz'.resp.code = Undefined
    /\ StoredCodes = {}

OnlyS256Stored ==
    \A k \in DOMAIN authCodes' : authCodes'[k].v.codeChallengeMethod = "S256"

\* C28 as stated: verifyPkceS256(v, c) is true exactly when c is
\* base64url(sha256(v)); GET /oauth/authorize refuses every request whose
\* code_challenge_method is present and is not S256; every stored code has
\* the method S256.
C28_PkceS256Only ==
    [][/\ PkceExact
       /\ (AuthorizeHandled /\ authz'.req.code_challenge_method \notin {Undefined, "S256"})
             => MethodRefused
       /\ OnlyS256Stored]_vars

\* C28, amended: the same, where GET /oauth/authorize refuses the requests
\* whose code_challenge_method is a non-empty string other than S256; a
\* request whose code_challenge_method is empty or given more than once is
\* handled as one without the parameter, and its code is stored with S256.
C28_PkceS256OnlyNamed ==
    [][/\ PkceExact
       /\ (AuthorizeHandled
             /\ authz'.req.code_challenge_method \notin {Undefined, "S256", "", RepeatedParam})
             => MethodRefused
       /\ (AuthorizeHandled
             /\ authz'.req.code_challenge_method \in {Undefined, "S256", "", RepeatedParam})
             => (/\ StoredCodes # {}
                 /\ authz'.resp.code \in StoredCodes)
       /\ OnlyS256Stored]_vars

\* a code was exchanged with its verifier, and a later request with
\* code_challenge_method=plain was refused
C28_Witness ==
    /\ authz # Null
    /\ authz.req.code_challenge_method = "plain"
    /\ authz.resp.error = "invalid_request"
    /\ \E r \in Req : reqs[r].status = 200 /\ reqs[r].codeVerifier = "v1"

\* C29: every response of the three discovery endpoints carries
\* Access-Control-Allow-Origin: *; the authorization-server document has the
\* configured server URL as issuer and S256 among
\* code_challenge_methods_supported; no response of /oauth/register,
\* /oauth/authorize, /oauth/consent, /oauth/callback or /oauth/token carries
\* an Access-Control-Allow-Origin header.
C29_CorsOnlyOnDiscovery ==
    http # Null =>
        /\ http.path \in WellKnownPaths =>
                (ACAO \in DOMAIN http.headers /\ http.headers[ACAO] = "*")
        /\ (http.path = "/.well-known/oauth-authorization-server" /\ http.method = "GET") =>
                (/\ http.body.issuer = http.cfg
                 /\ Includes(http.body.code_challenge_methods_supported, "S256"))
        /\ http.path \notin WellKnownPaths => ACAO \notin DOMAIN http.headers

\* the second response on the wire is the authorization-server document of a
\* deployment at http://localhost:3000, fetched from another origin
C29_Witness ==
    /\ http # Null
    /\ visits = 2
    /\ http.path = "/.well-known/oauth-authorization-server"
    /\ http.method = "GET"
    /\ http.origin = "https://app.example"
    /\ http.body.issuer = "http://localhost:3000"

\* the step received request r
TokenReceived(r) == reqs[r].pc = "idle" /\ reqs'[r].pc # "idle"

\* the step answered request r with the error, made no call on the code, the
\* refresh-token or the lock store, and left the three as they were
AnsweredAtRequestLevel(r, error) ==
    /\ reqs'[r].pc = "done"
    /\ reqs'[r].status = 400
    /\ reqs'[r].error = error
    /\ reqs'[r].ops = {}
    /\ UNCHANGED <<authCodes, refreshTokens, locks>>

\* C30: POST /oauth/token answers 400 invalid_request when grant_type or
\* client_id is missing, 400 invalid_client when the client_id is not
\* registered, and 400 unsupported_grant_type when a registered client sends a
\* grant_type other than authorization_code and refresh_token; in each case
\* no code, refresh token or lock is read or changed.
C30_RequestLevelErrors ==
    [][\A r \in Req :
        TokenReceived(r) =>
            LET grantType == reqs'[r].grant
                clientId == reqs'[r].clientId
            IN  /\ (grantType = "" \/ clientId = "")
                    => AnsweredAtRequestLevel(r, "invalid_request")
                /\ (grantType # "" /\ clientId # "" /\ clientId \notin DOMAIN clients)
                    => AnsweredAtRequestLevel(r, "invalid_client")
                /\ (/\ clientId \in DOMAIN clients
                    /\ grantType \notin {"", "authorization_code", "refresh_token"})
                    => AnsweredAtRequestLevel(r, "unsupported_grant_type")]_vars

\* a request with grant_type=password was refused after a code exchange had
\* stored a refresh token
C30_Witness ==
    /\ DOMAIN refreshTokens # {}
    /\ \E r \in Req : reqs[r].status = 200
    /\ \E r \in Req :
            /\ reqs[r].grant = "password"
            /\ reqs[r].clientId = "c1"
            /\ reqs[r].error = "unsupported_grant_type"

\* ---- which authorization_code requests delete the code
\* q names a known client, carries code, redirect_uri and code_verifier, and
\* its redirect_uri is one of the client's
ReachesLookup(q) ==
    /\ q.grant = "authorization_code"
    /\ q.clientId \in DOMAIN clients
    /\ q.code # "" /\ q.redirectUri # "" /\ q.codeVerifier # ""
    /\ Includes(clients[q.clientId].redirectUris, q.redirectUri)

\* a read of the code store at time t would find an entry under the code
CodeStored(m, code, t) ==
    IF backend = "memory" THEN MemoryGet(m, code) # Null
    ELSE RedisGet(m, code, t) # Null

\* the step is the start / the end of r's call of consumeAuthCode
LookupStarts(r) == reqs[r].pc = "consume" /\ reqs'[r].pc # "consume"
LookupEnds(r) ==
    /\ reqs[r].pc \in {"consume", "consume_del"}
    /\ reqs'[r].pc \notin {"consume", "consume_del"}

\* C31: an authorization_code request calls consumeAuthCode exactly when it
\* names a known client, carries code, redirect_uri and code_verifier and its
\* redirect_uri is registered for the client; receiving a request leaves the
\* code store as it was, so a request refused before the call leaves the code
\* redeemable; the code store changes only in a step of such a call, and then
\* by losing the entry of the code presented; when the call has returned the
\* code is no longer stored, whichever check the request fails afterwards; and
\* a call that starts when the code is not stored is answered 400
\* invalid_grant.
C31_CodeDeletedIffLookupReached ==
    [][/\ \A r \in Req :
            /\ (TokenReceived(r) /\ reqs'[r].grant = "authorization_code")
                => /\ reqs'[r].pc = "consume" <=> ReachesLookup(reqs'[r])
                   /\ reqs'[r].pc # "consume"
                        => reqs'[r].pc = "done" /\ reqs'[r].status = 400
                   /\ UNCHANGED authCodes
            /\ LookupEnds(r)
                => /\ ReachesLookup(reqs[r])
                   /\ ~CodeStored(authCodes', reqs[r].code, now')
            /\ (LookupStarts(r) /\ ~CodeStored(authCodes, reqs[r].code, now))
                => /\ reqs'[r].pc = "done"
                   /\ reqs'[r].status = 400
                   /\ reqs'[r].error = "invalid_grant"
       /\ authCodes' # authCodes
            => \E r \in Req :
                    /\ ReachesLookup(reqs[r])
                    /\ reqs[r].pc \in {"consume", "consume_del"}
                    /\ reqs'[r].pc \notin {"consume", "consume_del"}
                    /\ reqs[r].code \in DOMAIN authCodes
                    /\ authCodes' = [k \in DOMAIN authCodes \ {reqs[r].code} |-> authCodes[k]]
      ]_vars

\* the first request named the code's client and redirect URI with the wrong
\* verifier and was refused after the lookup; the code is gone, and the second
\* request, with every parameter the code is bound to, was refused as well
C31_Witness ==
    /\ MaxReqs >= 2
    /\ reqs[1].clientId = SeedCode.clientId
    /\ reqs[1].redirectUri = SeedCode.redirectUri
    /\ reqs[1].codeVerifier = "v2"
    /\ reqs[1].error = "invalid_grant"
    /\ SeedCode.code \notin DOMAIN authCodes
    /\ now < SeedCode.expiresAt
    /\ MatchesBinding(2)
    /\ reqs[2].pc = "done"
    /\ reqs[2].status = 400
    /\ reqs[2].error = "invalid_grant"

\* ---- a refresh token presented by another client
\* the entry stored under the token that q presents, expired or not
StoredUnder(q) ==
    MemoryGet(refreshTokens, hashRefreshToken(JwtSigningSecret, q.refreshToken))

\* q is a refresh_token request of a registered client, and the record stored
\* under its token is bound to another client
ForeignClient(q) ==
    /\ q.grant = "refresh_token"
    /\ q.clientId \in DOMAIN clients
    /\ StoredUnder(q) # Null
    /\ StoredUnder(q).clientId # q.clientId

\* the step is one of request r's handler
StepOf(r) == reqs'[r] # reqs[r]

\* C32 (as stated): a refresh_token request whose client_id is a registered
\* client other than the one the refresh record is bound to is answered 400
\* invalid_grant, and no step of its handler changes the refresh-token store.
\* Read without an exception in the handler.
C32_ForeignClientRefused ==
    [][\A r \in Req :
        (StepOf(r) /\ ForeignClient(reqs'[r]) /\ ~reqs'[r].threw) =>
            /\ refreshTokens' = refreshTokens
            /\ reqs'[r].status # 0
                => reqs'[r].status = 400 /\ reqs'[r].error = "invalid_grant"]_vars

\* C32 (amended): such a request is answered 400 invalid_grant when it gets
\* the lock of the token and 429 slow_down, before the record is read, when
\* another request holds that lock; in both cases no step of its handler
\* changes the refresh-token store, so the record is there, as it was, for the
\* client it is bound to.
C32_ForeignClientRefusedOrSlowDown ==
    [][\A r \in Req :
        (StepOf(r) /\ ForeignClient(reqs'[r]) /\ ~reqs'[r].threw) =>
            /\ refreshTokens' = refreshTokens
            /\ reqs'[r].status # 0 =>
                \/ /\ reqs'[r].lockToken # NoToken
                   /\ reqs'[r].status = 400 /\ reqs'[r].error = "invalid_grant"
                \/ /\ reqs'[r].lockToken = NoToken
                   /\ reqs'[r].status = 429 /\ reqs'[r].error = "slow_down"
                   /\ "get" \notin reqs'[r].ops
                   /\ \E o \in Req \ {r} :
                        /\ reqs[o].refreshToken = reqs'[r].refreshToken
                        /\ Holder(o)]_vars

\* client c2 presented c1's refresh token and was refused invalid_grant; then
\* c1 presented the same token and got its rotation
C32_Witness ==
    /\ MaxReqs >= 2
    /\ reqs[1].grant = "refresh_token"
    /\ reqs[1].clientId = "c2"
    /\ reqs[1].refreshToken = 1
    /\ reqs[1].pc = "done"
    /\ reqs[1].status = 400
    /\ reqs[1].error = "invalid_grant"
    /\ "get" \in reqs[1].ops
    /\ reqs[2].clientId = SeedRefresh.clientId
    /\ reqs[2].refreshToken = 1
    /\ reqs[2].status = 200

\* ---- what a refresh chain carries
\* the refresh record stored under token, expired or not
RecordOf(m, token) == MemoryGet(m, hashRefreshToken(JwtSigningSecret, token))

\* two records are bound to the same client, scope, resource and user claims
SameBindings(a, b) ==
    /\ a.clientId = b.clientId
    /\ a.scope = b.scope
    /\ Field(a, "resource") = Field(b, "resource")
    /\ a.userClaims = b.userClaims

\* the claims of an access token other than the two times
ClaimsOf(token) == [k \in DOMAIN token.payload \ {"iat", "exp"} |-> token.payload[k]]

\* the step in which r's exchange stores the first record of a chain; the step
\* in which r's rotation stores the new record; the step that sends r's 200
ExchangePuts(r) == reqs[r].pc = "issue" /\ reqs'[r].pc # "issue"
RotationPuts(r) == reqs[r].pc = "rotate" /\ reqs'[r].pc = "delete"
RotationAnswers(r) == reqs[r].pc = "delete" /\ reqs'[r].status = 200

Answers200(r) == (ExchangePuts(r) \/ RotationAnswers(r)) /\ reqs'[r].status = 200

\* C36 (as stated): in every 200 answer of the token endpoint the access
\* token's iss and aud are the configured server URL, its sub is the sub of
\* the bound userClaims, and its scope claim is the scope of the answer's body,
\* whatever else the bound userClaims carries.
C36_TokenClaimsFixed ==
    [][\A r \in Req :
        Answers200(r) =>
            LET bound == reqs[r].record
                token == reqs'[r].accessToken
            IN  /\ token.payload.iss = OauthServerUrl
                /\ token.payload.aud = OauthServerUrl
                /\ token.payload.sub = bound.userClaims.sub
                /\ token.payload.scope = reqs'[r].scope]_vars

\* C36 (what holds): iss, aud and sub are as stated for every bound
\* userClaims, and so is exp, which is the time of signing plus the access
\* token lifetime; the scope claim is the scope of the answer's body when the
\* bound userClaims has no scope member, and the userClaims' own scope member
\* when it has one.
C36_TokenClaimsButScope ==
    [][\A r \in Req :
        Answers200(r) =>
            LET bound == reqs[r].record
                token == reqs'[r].accessToken
            IN  /\ token.payload.iss = OauthServerUrl
                /\ token.payload.aud = OauthServerUrl
                /\ token.payload.sub = bound.userClaims.sub
                /\ token.payload.exp = token.payload.iat + ACCESS_TOKEN_TTL_SECONDS
                /\ token.payload.iat <= now
                /\ "scope" \notin DOMAIN bound.userClaims
                    => token.payload.scope = reqs'[r].scope
                /\ "scope" \in DOMAIN bound.userClaims
                    => token.payload.scope = bound.userClaims.scope]_vars

\* an exchange was answered 200 with scope mcp:read in the body and an access
\* token whose scope claim is the one the identity provider sent
C36_Witness ==
    /\ reqs[1].grant = "authorization_code"
    /\ reqs[1].status = 200
    /\ reqs[1].scope = "mcp:read"
    /\ reqs[1].accessToken.payload.scope = "openid profile email"

\* ---- the order of put and delete in a rotation
\* the hashes the step removes from the refresh-token store
DeletedHashes == {h \in DOMAIN refreshTokens : h \notin DOMAIN refreshTokens'}

\* r's handler ended in an exception before it stored a new record, and has
\* called releaseLock
FailedBeforePut(r) ==
    /\ IsRefresh(r)
    /\ Finished(r)
    /\ reqs[r].threw
    /\ "put" \notin reqs[r].ops
    /\ "release" \in reqs[r].ops

\* every chain with an unexpired token has a stored, unexpired record; and
\* after a rotation that failed before its put and was the only one to lock
\* the token, the token's record is still readable while the token has not
\* expired, and the lock is free
OneRecordAtLeast ==
    /\ \A c \in Chains : ChainLive(c) => Cardinality(ValidRecords(c)) >= 1
    /\ \A r \in Req :
        (FailedBeforePut(r) /\ OnlyToLock(r)) =>
            LET oldHash == hashRefreshToken(JwtSigningSecret, reqs[r].refreshToken)
            IN  /\ ~LockHeld(backend, locks, KeyOf(r), now)
                /\ (oldHash \in DOMAIN minted /\ now < minted[oldHash].expiresAt)
                    => getRefreshTokenByHash(backend, refreshTokens, oldHash, now) # Null

\* a step removes a record only as the delete of a rotation that has stored
\* its new record, which is still there after the step; a rotation that has
\* thrown before its put changes nothing in the store
DeleteAfterPut ==
    /\ DeletedHashes # {} =>
        \E r \in Req :
            /\ reqs[r].pc = "delete"
            /\ reqs'[r].pc # "delete"
            /\ "put" \in reqs[r].ops
            /\ DeletedHashes = {hashRefreshToken(JwtSigningSecret, reqs[r].refreshToken)}
            /\ RecordOf(refreshTokens, reqs[r].newToken) # Null
            /\ RecordOf(refreshTokens', reqs[r].newToken) # Null
    /\ \A r \in Req :
        (StepOf(r) /\ reqs'[r].threw /\ "put" \notin reqs'[r].ops)
            => refreshTokens' = refreshTokens

\* C34: in a rotation the old refresh record is deleted only after the new
\* one has been stored: in every reachable state, the states in the middle of
\* a rotation included, a chain that has an unexpired token has at least one
\* stored record; and a rotation that fails before it stores the new record
\* leaves the store as it was, so that the old token is redeemable once the
\* lock is released.
C34_PutBeforeDelete == []OneRecordAtLeast /\ [][DeleteAfterPut]_vars

\* the first rotation of token 1 threw before its put and released the lock;
\* the second request presented token 1 again and was answered 200
C34_Witness ==
    /\ MaxReqs >= 2
    /\ FailedBeforePut(1)
    /\ reqs[1].refreshToken = 1
    /\ reqs[2].refreshToken = 1
    /\ reqs[2].clientId = SeedRefresh.clientId
    /\ reqs[2].status = 200
    /\ reqs[2].pc = "done"

\* ---- a lock that is never released
TheLockKey == LockKey("h")

\* the step is a call of acquireLock on both backends
AcquireCalled == ops' = ops + 1 /\ lastOp'.name = "acquireLock"

\* the lock entry of the key on a backend: there since its acquisition, as
\* releaseLock has not deleted it
Unreleased(be) == TheLockKey \in DOMAIN stores[be].locks
LockExpiry(be) == stores[be].locks[TheLockKey].expiresAt

\* a call of acquireLock on the backend now would return a token
WouldAcquire(be) ==
    acquireLock(be, stores[be].locks, TheLockKey, LOCK_TTL_SECONDS, 0, now) # stores[be].locks

\* C35 (as stated): while the holder has not released, acquireLock on the key
\* returns a token at every time from acquisition + ttlSeconds on, and null
\* at every earlier time, on both backends.
C35_LockFreeAtTTL ==
    [][AcquireCalled =>
        \A be \in {"memory", "redis"} :
            Unreleased(be) => (lastOp'[be] # Null <=> now >= LockExpiry(be))]_vars

\* the rule of each backend: null before acquisition + ttlSeconds on both, a
\* token after that time on both; at that time itself MemoryOAuthStorage
\* returns a token and RedisOAuthStorage null. A token returned is the lock's
\* new holder, with a lifetime of ttlSeconds from the call.
AcquireRule ==
    AcquireCalled =>
        \A be \in {"memory", "redis"} :
            /\ Unreleased(be) =>
                /\ now < LockExpiry(be) => lastOp'[be] = Null
                /\ now > LockExpiry(be) => lastOp'[be] # Null
                /\ now = LockExpiry(be) => (lastOp'[be] # Null <=> be = "memory")
            /\ ~Unreleased(be) => lastOp'[be] # Null
            /\ lastOp'[be] # Null =>
                /\ stores'[be].locks[TheLockKey].token = lastOp'[be].token
                /\ stores'[be].locks[TheLockKey].expiresAt = now + LOCK_TTL_SECONDS
            /\ lastOp'[be] = Null => stores'[be].locks = stores[be].locks

\* C35 (amended): acquireLock returns null at every time before acquisition +
\* ttlSeconds and a token at every time after it, release or no release (at
\* that time itself the in-memory backend returns a token, Redis null); and
\* no lock blocks forever: from every state in which the key is locked, with
\* the clock running, a state is reached in which acquireLock would return a
\* token.
C35_LockFreeAfterTTL ==
    /\ [][AcquireRule]_vars
    /\ \A be \in {"memory", "redis"} :
            (Unreleased(be) /\ LockExpiry(be) < LockHorizon) ~> WouldAcquire(be)

\* the lock was taken at time 0 and not released; a call at time 6 got a
\* token on both backends
C35_Witness ==
    /\ lastOp # Null
    /\ lastOp.name = "acquireLock"
    /\ ops = 2
    /\ now = LOCK_TTL_SECONDS + 1
    /\ lastOp.memory # Null
    /\ lastOp.redis # Null
    /\ stores["redis"].locks[TheLockKey].expiresAt = now + LOCK_TTL_SECONDS

\* ---- the session a callback creates
\* the step is the end of callback i, with the consent page or the redirect
\* that carries a code / with an error page
CallbackSucceeds(i) ==
    /\ cbs[i].pc = "grant"
    /\ cbs'[i].pc = "done"
    /\ cbs'[i].resp.status \in {200, 302}
CallbackFails(i) ==
    /\ cbs[i].pc \notin {"idle", "done"}
    /\ cbs'[i].pc = "done"
    /\ cbs'[i].resp.status \notin {200, 302}

\* the session ids a browser could present in its cookie: those of the signed
\* and forged cookies in play and of the cookies set so far
PresentableSessionIds ==
    {base64urlDecode(c.bodyB64).payload.sessionId :
        c \in (SessionCookies \cup SetSessionCookies) \ {NoCookie}}

\* C37: a GET /oauth/callback that succeeds stores the session of the user it
\* authenticated under an id that was not in the session store and is in no
\* cookie a browser could present, and sets the session cookie to a signed
\* value naming that id; the store gains that one entry and every entry it
\* had is as it was. A callback that fails stores no session and sets no
\* cookie.
C37_FreshSessionPerLogin ==
    [][\A i \in Cb :
        /\ CallbackSucceeds(i) =>
            LET id == cbs'[i].sessionId
                cookie == cbs'[i].setCookie
            IN  /\ id \notin DOMAIN sessions
                /\ id \notin PresentableSessionIds
                /\ DOMAIN sessions' = DOMAIN sessions \cup {id}
                /\ \A k \in DOMAIN sessions : sessions'[k] = sessions[k]
                /\ getUserSession(backend, sessions', id, now) # Null
                /\ getUserSession(backend, sessions', id, now).userClaims = cbs'[i].claims
                /\ cookie # Null
                /\ cookie.name = "scsi_session"
                /\ verifyState(OidcCookieSecret, cookie.value, now) # Null
                /\ verifyState(OidcCookieSecret, cookie.value, now).payload.sessionId = id
        /\ CallbackFails(i) => (sessions' = sessions /\ cbs'[i].setCookie = Null)]_vars

\* a callback has logged a user in while the session s1 of the earlier login
\* is in the store: both sessions are there, s1 as it was stored
C37_Witness ==
    \E i \in Cb :
        /\ cbs[i].pc = "done"
        /\ cbs[i].resp.status \in {200, 302}
        /\ cbs[i].sessionId \in DOMAIN sessions
        /\ cbs[i].sessionId # "s1"
        /\ "s1" \in DOMAIN sessions
        /\ sessions["s1"] = StoreEntry(backend, SeedSession, 0)

\* ---- what counts as a consent_state
\* the step is a POST /oauth/consent that stored a code
ConsentIssuesCode == consent' # consent /\ consent' # Null /\ StoredCodes # {}

\* the body the blob was signed over
SignedBody(blob) == base64urlDecode(blob.bodyB64)

\* renderConsent signs { oauth } and nothing else, for ten minutes
MintedForConsent(blob, t) ==
    /\ blob # NoBlob
    /\ verifyState(OidcCookieSecret, blob, t) # Null
    /\ DOMAIN SignedBody(blob).payload = {"oauth"}

\* C38 (as stated): POST /oauth/consent stores a code only when consent_state
\* is a blob signed for a consent page; the blobs signed for another purpose
\* with the same secret (upstream state, session cookie, approval cookie) are
\* refused as consent_state.
C38_ConsentStateOnly ==
    [][ConsentIssuesCode => MintedForConsent(consent'.req.consent_state, now)]_vars

\* C38 (what holds): a code is stored only for a consent_state that verifies
\* under the cookie secret and carries an authorization request; a session
\* cookie or an approval cookie sent as consent_state ends the handler in an
\* exception without a code.
C38_ConsentStateCarriesRequest ==
    [][(consent' # consent /\ consent' # Null) =>
        LET blob == consent'.req.consent_state
        IN  /\ StoredCodes # {} =>
                /\ blob # NoBlob
                /\ verifyState(OidcCookieSecret, blob, now) # Null
                /\ "oauth" \in DOMAIN SignedBody(blob).payload
            /\ (/\ blob # NoBlob
                /\ verifyState(OidcCookieSecret, blob, now) # Null
                /\ "oauth" \notin DOMAIN SignedBody(blob).payload)
               => (StoredCodes = {} /\ consent'.resp \in ConsentThrown)]_vars

\* an approving form with the state of the upstream login as consent_state
\* was answered with a redirect that carries a code
C38_Witness ==
    /\ consent # Null
    /\ consent.req.consent_state = SeedOidcState
    /\ consent.req.decision = "approve"
    /\ consent.resp.status = 302
    /\ consent.resp.code # Undefined
    /\ DOMAIN authCodes # {}

\* ---- the cache of the upstream client
\* the step is the cache test of call c / the end of c's discovery
CacheTested(c) == oidcCalls[c].pc = "idle" /\ oidcCalls'[c].pc # "idle"
DiscoveryEnds(c) == oidcCalls[c].pc = "discovery" /\ oidcCalls'[c].pc = "done"

\* no call is waiting for its discovery
NoDiscoveryPending == \A c \in OidcCall : oidcCalls[c].pc # "discovery"

\* every call made so far was made with the issuer
OnlyIssuer(issuer) == \A c \in OidcCall : oidcCalls[c].pc # "idle" => oidcCalls[c].issuer = issuer

\* when no discovery is pending and a call for the only issuer in use has
\* returned a bundle, the cache holds a bundle for that issuer; a cached
\* bundle was discovered at the issuer it is cached for
CacheFilled ==
    /\ \A issuer \in OidcIssuers :
        (/\ NoDiscoveryPending
         /\ OnlyIssuer(issuer)
         /\ \E c \in OidcCall : oidcCalls[c].pc = "done" /\ ~oidcCalls[c].threw)
        => (cached # Null /\ cached.issuer = issuer)
    /\ cached # Null => cached.bundle.config.server = cached.issuer

\* the cache test sends a call to discovery exactly when no bundle is cached
\* for its issuer, and otherwise returns the cached bundle at once; only a
\* discovery that resolves writes the cache, with its own bundle under its own
\* issuer; a discovery that rejects leaves the cache as it was
CacheSteps ==
    /\ \A c \in OidcCall :
        /\ CacheTested(c) =>
            LET hit == cached # Null /\ cached.issuer = oidcCalls'[c].issuer
            IN  /\ oidcCalls'[c].discovered <=> ~hit
                /\ hit => /\ oidcCalls'[c].pc = "done"
                          /\ oidcCalls'[c].result = cached.bundle
                /\ ~hit => oidcCalls'[c].pc = "discovery"
                /\ cached' = cached
        /\ (DiscoveryEnds(c) /\ oidcCalls'[c].threw) => cached' = cached
        /\ (DiscoveryEnds(c) /\ ~oidcCalls'[c].threw) =>
            /\ cached' = [issuer |-> oidcCalls[c].issuer, bundle |-> oidcCalls'[c].result]
            /\ oidcCalls'[c].result.config.server = oidcCalls[c].issuer
    /\ cached' # cached => \E c \in OidcCall : DiscoveryEnds(c) /\ ~oidcCalls'[c].threw

\* C39: getOidcClient performs discovery only when no bundle is cached for
\* the configured issuer and otherwise returns the cached bundle; calls that
\* overlap on an empty cache may each perform discovery, and once none is
\* pending and one has returned, the cache holds a bundle for that issuer; a
\* discovery that fails leaves the cache unchanged.
C39_DiscoveryCache == []CacheFilled /\ [][CacheSteps]_vars

\* two calls for one issuer found the cache empty and each performed
\* discovery; the first failed, the second filled the cache; a third call was
\* then served from the cache
C39_Witness ==
    /\ oidcCalls[1].discovered /\ oidcCalls[1].threw
    /\ oidcCalls[2].discovered /\ oidcCalls[2].pc = "done" /\ ~oidcCalls[2].threw
    /\ oidcCalls[1].issuer = oidcCalls[2].issuer
    /\ oidcCalls[3].pc = "done"
    /\ ~oidcCalls[3].discovered
    /\ oidcCalls[3].result = oidcCalls[2].result
    /\ cached # Null
    /\ cached.bundle = oidcCalls[2].result

====
